---------------------------- MODULE Spec2Model ----------------------------
(***************************************************************************)
(* Model of the audio-notes server: the turn-aware real-time session       *)
(* handler (wss.on('connection') and the callbacks it registers), the      *)
(* similarity functions used for duplicate detection, splitIntoSentences,  *)
(* generateAdvancedSummary and generateEnhancedNotes.                      *)
(*                                                                         *)
(* Texts are sequences of atoms, so that trim, join and split are computed *)
(* as the code computes them: an atom is a maximal run of word characters  *)
(* (\w) or one other character; the texts of the session and of            *)
(* calculateSimilarity are spelled character by character.                 *)
(***************************************************************************)
EXTENDS Integers, Sequences, FiniteSets, TLC

(***************************************************************************)
(* Bounds of the model.                                                    *)
(***************************************************************************)
\* order keys carried by Turn events are 0..MaxKey
MaxKey == 1
\* at most MaxSessionEnds session_end notifications are delivered to a client
MaxSessionEnds == 2
\* token sets handed to jaccardSimilarity are subsets of 1..MaxTokens
MaxTokens == 3
\* texts handed to calculateSimilarity hold at most MaxWords words
MaxWords == 2
\* texts handed to the summarizer split into at most MaxSegments segments
MaxSegments == 17
\* combined segment scores are 0..MaxScore, given by a pattern of PatternLen scores
MaxScore == 1
PatternLen == 3

Keys == 0..MaxKey

(***************************************************************************)
(* Text helpers: String.prototype.trim and Array.prototype.join.           *)
(***************************************************************************)
SP == " "
NL == "\n"

IsSpace(c) == c \in {SP, NL}

RECURSIVE TrimStart(_)
TrimStart(s) ==
  IF s = <<>> THEN s
  ELSE IF IsSpace(Head(s)) THEN TrimStart(Tail(s)) ELSE s

RECURSIVE TrimEnd(_)
TrimEnd(s) ==
  IF s = <<>> THEN s
  ELSE IF IsSpace(s[Len(s)]) THEN TrimEnd(SubSeq(s, 1, Len(s) - 1)) ELSE s

Trim(s) == TrimEnd(TrimStart(s))

\* the position after the \s+ run that starts at position i
RECURSIVE SkipSpaces(_, _)
SkipSpaces(s, i) ==
  IF i <= Len(s) /\ IsSpace(s[i]) THEN SkipSpaces(s, i + 1) ELSE i

\* String.prototype.toLowerCase on the atoms of the model's vocabulary
Capitalized ==
  [ This |-> "this", We |-> "we", The |-> "the", Friday |-> "friday",
    But |-> "but", Must |-> "must", Budget |-> "budget",
    Discuss |-> "discuss", Review |-> "review" ]

Lower(a) == IF a \in DOMAIN Capitalized THEN Capitalized[a] ELSE a

\* the concatenation of parts[lo], ..., parts[hi]
RECURSIVE Flatten(_, _, _)
Flatten(parts, lo, hi) ==
  IF lo > hi THEN <<>>
  ELSE IF lo = hi THEN parts[lo]
  ELSE LET mid == (lo + hi) \div 2
       IN  Flatten(parts, lo, mid) \o Flatten(parts, mid + 1, hi)

Concat(parts) == Flatten(parts, 1, Len(parts))

\* the positions lo..hi that are flagged, in ascending order
RECURSIVE Where(_, _, _)
Where(flags, lo, hi) ==
  IF lo > hi THEN <<>>
  ELSE IF lo = hi THEN (IF flags[lo] THEN <<lo>> ELSE <<>>)
  ELSE LET mid == (lo + hi) \div 2
       IN  Where(flags, lo, mid) \o Where(flags, mid + 1, hi)

\* String.prototype.length
RECURSIVE StrLenOf(_, _, _)
StrLenOf(s, lo, hi) ==
  IF lo > hi THEN 0
  ELSE IF lo = hi THEN Len(s[lo])
  ELSE LET mid == (lo + hi) \div 2
       IN  StrLenOf(s, lo, mid) + StrLenOf(s, mid + 1, hi)

StrLen(s) == StrLenOf(s, 1, Len(s))

\* Array.prototype.join
Join(parts, sep) ==
  Concat([ k \in 1..Len(parts) |-> IF k = 1 THEN parts[1] ELSE sep \o parts[k] ])

(***************************************************************************)
(* Messages of the recognition stream (data = JSON.parse(message)).        *)
(* turn_order is <<>> when the field is absent and <<k>> otherwise;        *)
(* utterance is {} when the field is absent (or the empty string, which    *)
(* || treats alike) and {text} otherwise.                                  *)
(***************************************************************************)
LocalId == "local"
ProviderId == "provider"

Transcripts == { <<>>, <<"a">> }
Utterances == { {}, {<<SP>>}, {<<"b", SP>>} }
TurnOrders == { <<>> } \cup { <<k>> : k \in Keys }

\* every order key comes with every text; an event without turn_order, or
\* with a blank utterance, is one that also carries a transcript
TurnEvents ==
  { ev \in [ type : {"Turn"}, turn_order : TurnOrders, end_of_turn : BOOLEAN,
             utterance : Utterances, transcript : Transcripts ] :
      /\ ev.turn_order = <<>> => (ev.utterance = {} /\ ev.transcript # <<>>)
      /\ ev.utterance = {<<SP>>} => ev.transcript # <<>> }

UpstreamEvents ==
  TurnEvents
    \cup { [type |-> "Begin", id |-> ProviderId] }
    \cup { [type |-> "Termination"], [type |-> "Unknown"], [type |-> "Malformed"] }

VARIABLES
  clientState,          \* clientWs.readyState: "NONE" before the connection
  assemblyState,        \* assemblyWs.readyState: "NONE" before the connection
  sessionId,            \* let sessionId
  activeSessions,       \* keys of the activeSessions registry
  completedTurns,       \* the completedTurns Map, entries in insertion order
  currentPartialText,   \* let currentPartialText
  emitted,              \* what the most recent callback passed to clientWs.send
  sessionEnds,          \* session_end notifications delivered to the client
  atError,              \* completedTurns as it was at the most recent stream error
  path,                 \* the most recent callback: its name, the branches it
                        \* took and its side effects, in program order
  turnOrder,            \* const turnOrder of the most recent Turn callback
  simIn, simOut,        \* similarity engine: inputs and results
  sumIn, sumOut,        \* summarizer: input and result
  conn,                 \* concurrent connections: the closure variables of each
  registry,             \* concurrent connections: the activeSessions Map
  outbox,               \* what the most recent callback sent to each client
  actor,                \* the connection whose callback ran most recently
  notesIn, notesOut,    \* note enhancement: inputs and result
  appendSession,        \* closure variables of the append-only handler
  stream,               \* the Turn events with end_of_turn so far: the key of
                        \* the last one, and whether the keys only went up
  app,                  \* state of the App component in the browser
  recorder              \* state and refs of the AudioRecorder component

sessionVars ==
  << clientState, assemblyState, sessionId, activeSessions, completedTurns,
     currentPartialText, emitted, sessionEnds, atError, path, turnOrder >>
simVars == << simIn, simOut >>
sumVars == << sumIn, sumOut >>
connVars == << conn, registry, outbox, actor >>
notesVars == << notesIn, notesOut >>
pipeVars == << appendSession, stream, app >>
recorderVars == << recorder >>
analyticsVars == << simVars, sumVars, connVars, notesVars, recorderVars >>
vars == << sessionVars, simVars, sumVars, connVars, notesVars, pipeVars,
          recorderVars >>

(***************************************************************************)
(* completedTurns (a JS Map keeps its entries in insertion order).         *)
(***************************************************************************)
TurnKeys(turns) == { turns[i].key : i \in 1..Len(turns) }

Has(turns, k) == k \in TurnKeys(turns)

\* Map.prototype.set: an existing key keeps its place and takes the new value
MapSet(turns, k, text) ==
  IF Has(turns, k)
  THEN [ i \in 1..Len(turns) |->
           IF turns[i].key = k THEN [key |-> k, text |-> text] ELSE turns[i] ]
  ELSE Append(turns, [key |-> k, text |-> text])

\* Array.prototype.sort with (a, b) => a[0] - b[0]: stable, ascending by key
RECURSIVE InsertByKey(_, _)
InsertByKey(e, sorted) ==
  IF sorted = <<>> THEN <<e>>
  ELSE IF Head(sorted).key - e.key > 0
       THEN <<e>> \o sorted
       ELSE <<Head(sorted)>> \o InsertByKey(e, Tail(sorted))

SortTurnsArrivalOrderMutant(entries) == entries

RECURSIVE SortTurns(_)
SortTurns(entries) ==
  IF entries = <<>> THEN <<>>
  ELSE InsertByKey(entries[Len(entries)],
                   SortTurns(SubSeq(entries, 1, Len(entries) - 1)))

BuildFullTranscript(turns) ==
  LET sortedTurns == SortTurns(turns)
      texts == [ i \in 1..Len(sortedTurns) |-> sortedTurns[i].text ]
  IN  Trim(Join(texts, <<SP>>))

(***************************************************************************)
(* clientWs.send: the notification reaches the client only while the       *)
(* client socket is open.                                                  *)
(***************************************************************************)
Delivered == clientState = "OPEN"

ClientSend(n) ==
  /\ emitted' = <<n>>
  /\ IF n.type = "session_end" /\ Delivered
     THEN /\ sessionEnds < MaxSessionEnds
          /\ sessionEnds' = sessionEnds + 1
     ELSE UNCHANGED sessionEnds

NoSend == emitted' = <<>> /\ UNCHANGED sessionEnds

(***************************************************************************)
(* wss.on('connection'): the session is created, the upstream socket is    *)
(* constructed and the session is registered under the local identifier.   *)
(* The streaming URL is a constant, so the constructor does not throw.     *)
(***************************************************************************)
Connection ==
  /\ UNCHANGED analyticsVars
  /\ turnOrder' = 0
  /\ clientState = "NONE"
  /\ clientState' = "OPEN"
  /\ assemblyState' = "CONNECTING"
  /\ sessionId' = LocalId
  /\ completedTurns' = <<>>
  /\ currentPartialText' = <<>>
  /\ activeSessions' = activeSessions \cup {LocalId}
  /\ path' = <<"connection", "registry_set">>
  /\ NoSend
  /\ UNCHANGED atError

\* assemblyWs.on('open')
UpstreamOpen ==
  /\ UNCHANGED analyticsVars
  /\ turnOrder' = 0
  /\ assemblyState = "CONNECTING"
  /\ assemblyState' = "OPEN"
  /\ path' = <<"upstream_open">>
  /\ NoSend
  /\ UNCHANGED << clientState, sessionId, activeSessions, completedTurns,
                  currentPartialText, atError >>

(***************************************************************************)
(* assemblyWs.on('message')                                                *)
(***************************************************************************)
\* data.turn_order ?? 0
TurnOrderOf(ev) == IF ev.turn_order = <<>> THEN 0 ELSE ev.turn_order[1]

Truthy(text) == text # <<>>

TurnTextOfTranscriptFirstMutant(ev) ==
  LET u == IF ev.utterance = {} THEN <<>> ELSE CHOOSE t \in ev.utterance : TRUE
  IN  Trim(IF Truthy(ev.transcript) THEN ev.transcript ELSE u)

\* (data.utterance || data.transcript || '').trim()
TurnTextOf(ev) ==
  LET u == IF ev.utterance = {} THEN <<>> ELSE CHOOSE t \in ev.utterance : TRUE
  IN  Trim(IF Truthy(u) THEN u ELSE ev.transcript)

\* the provider opens a session once
OnBegin(ev) ==
  /\ ev.type = "Begin"
  /\ sessionId = LocalId
  /\ sessionId' = ev.id
  /\ ClientSend([type |-> "session_start", sessionId |-> ev.id])
  /\ path' = <<"Begin", "set_sessionId", "send">>
  /\ turnOrder' = 0
  /\ UNCHANGED << completedTurns, currentPartialText >>

CommitGuardNoHasMutant(turnText, order) == Truthy(turnText)

\* turnText && !completedTurns.has(turnOrder)
CommitGuard(turnText, order) ==
  Truthy(turnText) /\ ~Has(completedTurns, order)

CommitStaleTranscriptMutant(order, turnText) ==
  /\ completedTurns' = MapSet(completedTurns, order, turnText)
  /\ currentPartialText' = <<>>
  /\ ClientSend([ type |-> "final_transcript", text |-> turnText,
                  fullTranscript |-> BuildFullTranscript(completedTurns) ])
  /\ path' = <<"Turn", "end_of_turn", "build", "map_set", "clear_partial", "send">>

\* lines 113-125: set, clear the partial text, rebuild, send
Commit(order, turnText) ==
  /\ completedTurns' = MapSet(completedTurns, order, turnText)
  /\ currentPartialText' = <<>>
  /\ ClientSend([ type |-> "final_transcript", text |-> turnText,
                  fullTranscript |-> BuildFullTranscript(completedTurns') ])
  /\ path' = <<"Turn", "end_of_turn", "map_set", "clear_partial", "build", "send">>

SetPartialAccumulateMutant(transcript) ==
  /\ currentPartialText' = currentPartialText \o transcript
  /\ ClientSend([ type |-> "partial_transcript",
                  text |-> currentPartialText \o transcript ])
  /\ path' = <<"Turn", "partial", "set_partial", "send">>
  /\ UNCHANGED completedTurns

\* lines 128-133: replace the partial text and send it
SetPartial(transcript) ==
  /\ currentPartialText' = transcript
  /\ ClientSend([ type |-> "partial_transcript", text |-> currentPartialText' ])
  /\ path' = <<"Turn", "partial", "set_partial", "send">>
  /\ UNCHANGED completedTurns

OnTurn(ev) ==
  /\ ev.type = "Turn"
  /\ turnOrder' = TurnOrderOf(ev)
  /\ LET turnText == TurnTextOf(ev)
     IN  IF ev.end_of_turn
         THEN IF CommitGuard(turnText, TurnOrderOf(ev))
              THEN Commit(TurnOrderOf(ev), turnText)
              ELSE /\ path' = <<"Turn", "end_of_turn",
                                IF Truthy(turnText) THEN "key_recorded" ELSE "text_empty">>
                   /\ NoSend
                   /\ UNCHANGED << completedTurns, currentPartialText >>
         ELSE IF Truthy(ev.transcript)
              THEN SetPartial(ev.transcript)
              ELSE /\ path' = <<"Turn", "partial", "text_empty">>
                   /\ NoSend
                   /\ UNCHANGED << completedTurns, currentPartialText >>
  /\ UNCHANGED sessionId

OnTermination(ev) ==
  /\ ev.type = "Termination"
  /\ ClientSend([ type |-> "session_end",
                  fullTranscript |-> BuildFullTranscript(completedTurns) ])
  /\ path' = <<"Termination", "build", "send">>
  /\ turnOrder' = 0
  /\ UNCHANGED << sessionId, completedTurns, currentPartialText >>

OnIgnoredResetsPartialMutant(ev) ==
  /\ ev.type \in {"Unknown", "Malformed"}
  /\ path' = <<ev.type>>
  /\ turnOrder' = 0
  /\ NoSend
  /\ currentPartialText' = <<>>
  /\ UNCHANGED << sessionId, completedTurns >>

\* default branch, and a message JSON.parse rejects (caught and logged)
OnIgnored(ev) ==
  /\ ev.type \in {"Unknown", "Malformed"}
  /\ path' = <<ev.type>>
  /\ turnOrder' = 0
  /\ NoSend
  /\ UNCHANGED << sessionId, completedTurns, currentPartialText >>

OnMessage(ev) ==
  /\ UNCHANGED analyticsVars
  /\ assemblyState \in {"OPEN", "CLOSING"}
  /\ \/ OnBegin(ev)
     \/ OnTurn(ev)
     \/ OnTermination(ev)
     \/ OnIgnored(ev)
  /\ UNCHANGED << clientState, assemblyState, activeSessions, atError >>

UpstreamMessage == \E ev \in UpstreamEvents : OnMessage(ev)

UpstreamErrorResetMutant ==
  /\ UNCHANGED analyticsVars
  /\ turnOrder' = 0
  /\ assemblyState \in {"CONNECTING", "OPEN", "CLOSING"}
  /\ ClientSend([type |-> "error"])
  /\ path' = <<"upstream_error", "send">>
  /\ atError' = completedTurns
  /\ completedTurns' = <<>>
  /\ UNCHANGED << clientState, assemblyState, sessionId, activeSessions,
                  currentPartialText >>

\* assemblyWs.on('error')
UpstreamError ==
  /\ UNCHANGED analyticsVars
  /\ turnOrder' = 0
  /\ assemblyState \in {"CONNECTING", "OPEN", "CLOSING"}
  /\ ClientSend([type |-> "error"])
  /\ path' = <<"upstream_error", "send">>
  /\ atError' = completedTurns
  /\ UNCHANGED << clientState, assemblyState, sessionId, activeSessions,
                  completedTurns, currentPartialText >>

\* assemblyWs.on('close')
UpstreamClose ==
  /\ UNCHANGED analyticsVars
  /\ turnOrder' = 0
  /\ assemblyState \in {"CONNECTING", "OPEN", "CLOSING"}
  /\ assemblyState' = "CLOSED"
  /\ IF clientState = "OPEN"
     THEN /\ ClientSend([ type |-> "session_end",
                          fullTranscript |-> BuildFullTranscript(completedTurns) ])
          /\ path' = <<"upstream_close", "build", "send">>
     ELSE /\ NoSend
          /\ path' = <<"upstream_close">>
  /\ UNCHANGED << clientState, sessionId, activeSessions, completedTurns,
                  currentPartialText, atError >>

\* clientWs.on('message'): audio is forwarded only while assemblyWs is open
ClientMessage ==
  /\ UNCHANGED analyticsVars
  /\ turnOrder' = 0
  /\ clientState = "OPEN"
  /\ path' = IF assemblyState = "OPEN"
             THEN <<"client_message", "send_audio">>
             ELSE <<"client_message">>
  /\ NoSend
  /\ UNCHANGED << clientState, assemblyState, sessionId, activeSessions,
                  completedTurns, currentPartialText, atError >>

\* clientWs.on('close')
ClientClose ==
  /\ UNCHANGED analyticsVars
  /\ turnOrder' = 0
  /\ clientState = "OPEN"
  /\ clientState' = "CLOSED"
  /\ IF assemblyState = "OPEN"
     THEN /\ assemblyState' = "CLOSING"
          /\ path' = <<"client_close", "send_Terminate", "close_upstream",
                       "registry_delete">>
     ELSE /\ UNCHANGED assemblyState
          /\ path' = <<"client_close", "registry_delete">>
  /\ activeSessions' = activeSessions \ {sessionId}
  /\ NoSend
  /\ UNCHANGED << sessionId, completedTurns, currentPartialText, atError >>

(***************************************************************************)
(* Idle values of the analytics variables in the session specification.    *)
(***************************************************************************)
SimIdle == simIn = <<>> /\ simOut = <<>>
SumIdle == sumIn = <<>> /\ sumOut = <<>>
ConnIdle == conn = <<>> /\ registry = {} /\ outbox = <<>> /\ actor = "none"
NotesIdle == notesIn = <<>> /\ notesOut = <<>>
PipeIdle == appendSession = <<>> /\ stream = <<>> /\ app = <<>>
RecorderIdle == recorder = <<>>
FrontIdle == PipeIdle /\ RecorderIdle

SessionInit ==
  /\ clientState = "NONE"
  /\ assemblyState = "NONE"
  /\ sessionId = LocalId
  /\ activeSessions = {}
  /\ completedTurns = <<>>
  /\ currentPartialText = <<>>
  /\ emitted = <<>>
  /\ sessionEnds = 0
  /\ atError = <<>>
  /\ path = <<>>
  /\ turnOrder = 0

Init == SessionInit /\ SimIdle /\ SumIdle /\ ConnIdle /\ NotesIdle /\ FrontIdle

Next ==
  \/ Connection /\ UNCHANGED pipeVars
  \/ UpstreamOpen /\ UNCHANGED pipeVars
  \/ UpstreamMessage /\ UNCHANGED pipeVars
  \/ UpstreamError /\ UNCHANGED pipeVars
  \/ UpstreamClose /\ UNCHANGED pipeVars
  \/ ClientMessage /\ UNCHANGED pipeVars
  \/ ClientClose /\ UNCHANGED pipeVars

Spec == Init /\ [][Next]_vars

(***************************************************************************)
(* The session under the scheduling of the event loop and the sockets: a   *)
(* connection attempt that is left alone completes, and a close that was   *)
(* requested with assemblyWs.close() completes (the close handshake, or    *)
(* the close timer of the socket).  The provider and the client are not    *)
(* obliged to send or to close anything.                                   *)
(***************************************************************************)
UpstreamOpens == UpstreamOpen /\ UNCHANGED pipeVars

UpstreamCloseRequested ==
  assemblyState = "CLOSING" /\ UpstreamClose /\ UNCHANGED pipeVars

Fairness == WF_vars(UpstreamOpens) /\ WF_vars(UpstreamCloseRequested)

SpecFair == Init /\ [][Next]_vars /\ Fairness
(***************************************************************************)
(* The append-only handler (the server variant that keeps fullTranscript   *)
(* and lastCompletedTurn) and the App component of the browser.            *)
(***************************************************************************)
\* lines 724-726
AppendConnection ==
  appendSession' = [ fullTranscript |-> <<>>, currentTurnText |-> <<>>,
                     lastCompletedTurn |-> -1, emitted |-> <<>> ]

AppendSend(n) == [ appendSession EXCEPT !.emitted = <<n>> ]
AppendNoSend == [ appendSession EXCEPT !.emitted = <<>> ]

\* data.turn_order || 0
TurnOrderOrZero(ev) ==
  IF ev.turn_order = <<>> \/ ev.turn_order[1] = 0 THEN 0 ELSE ev.turn_order[1]

\* data.utterance || data.transcript || ''
AppendTurnTextOf(ev) ==
  LET u == IF ev.utterance = {} THEN <<>> ELSE CHOOSE t \in ev.utterance : TRUE
  IN  IF Truthy(u) THEN u ELSE ev.transcript

AppendCommitNoSpaceMutant(session, turnText) ==
  LET full == session.fullTranscript \o Trim(turnText)
  IN  [ session EXCEPT !.fullTranscript = full,
                       !.currentTurnText = <<>>,
                       !.emitted = << [ type |-> "final_transcript",
                                        text |-> Trim(turnText),
                                        fullTranscript |-> full ] >> ]

\* lines 766-781
AppendCommit(session, turnText) ==
  LET full == IF Truthy(session.fullTranscript)
              THEN session.fullTranscript \o <<SP>> \o Trim(turnText)
              ELSE Trim(turnText)
  IN  [ session EXCEPT !.fullTranscript = full,
                       !.currentTurnText = <<>>,
                       !.emitted = << [ type |-> "final_transcript",
                                        text |-> Trim(turnText),
                                        fullTranscript |-> full ] >> ]

\* lines 757-790
AppendOnTurn(ev) ==
  LET order == TurnOrderOrZero(ev)
      accepted == [ AppendNoSend EXCEPT !.lastCompletedTurn = order ]
  IN  IF ev.end_of_turn /\ order > appendSession.lastCompletedTurn
      THEN IF Truthy(Trim(AppendTurnTextOf(ev)))
           THEN AppendCommit(accepted, AppendTurnTextOf(ev))
           ELSE accepted
      ELSE IF ~ev.end_of_turn /\ Truthy(ev.transcript)
           THEN [ appendSession EXCEPT
                    !.currentTurnText = ev.transcript,
                    !.emitted = << [ type |-> "partial_transcript",
                                     text |-> ev.transcript ] >> ]
           ELSE AppendNoSend

\* assemblyWs.on('message') of the append-only handler
AppendOnMessage(ev) ==
  appendSession' =
    CASE ev.type = "Begin" ->
           AppendSend([type |-> "session_start", sessionId |-> ev.id])
      [] ev.type = "Turn" -> AppendOnTurn(ev)
      [] ev.type = "Termination" ->
           AppendSend([ type |-> "session_end",
                        fullTranscript |-> Trim(appendSession.fullTranscript) ])
      [] OTHER -> AppendNoSend

\* assemblyWs.on('error') of the append-only handler
AppendOnError == appendSession' = AppendSend([type |-> "error"])

\* assemblyWs.on('close') of the append-only handler
AppendOnClose ==
  appendSession' =
    IF clientState = "OPEN"
    THEN AppendSend([ type |-> "session_end",
                      fullTranscript |-> Trim(appendSession.fullTranscript) ])
    ELSE AppendNoSend

\* the stream of completed turns
StreamStart == stream' = [ lastKey |-> -1, ascending |-> TRUE ]

StreamNext(ev) ==
  stream' = IF ev.type = "Turn" /\ ev.end_of_turn
            THEN [ lastKey |-> TurnOrderOf(ev),
                   ascending |-> stream.ascending /\ TurnOrderOf(ev) > stream.lastKey ]
            ELSE stream

\* handleRecordingStart: setTranscript(''), setPartialTranscript('')
HandleRecordingStart == app' = [ transcript |-> <<>>, partialTranscript |-> <<>> ]

HandleTranscriptUpdateReplaceMutant(text, isFinal) ==
  IF isFinal
  THEN [ transcript |-> text, partialTranscript |-> <<>> ]
  ELSE [ app EXCEPT !.partialTranscript = text ]

\* handleTranscriptUpdate(text, isFinal)
HandleTranscriptUpdate(text, isFinal) ==
  IF isFinal
  THEN [ transcript |-> app.transcript
                          \o (IF Truthy(app.transcript) THEN <<SP>> ELSE <<>>)
                          \o text,
         partialTranscript |-> <<>> ]
  ELSE [ app EXCEPT !.partialTranscript = text ]

\* wsRef.current.onmessage for what the server passed to clientWs.send
OnClientMessage(sent) ==
  app' = IF sent = <<>> \/ ~Delivered THEN app
         ELSE CASE sent[1].type = "partial_transcript" ->
                     HandleTranscriptUpdate(sent[1].text, FALSE)
                [] sent[1].type = "final_transcript" ->
                     HandleTranscriptUpdate(sent[1].text, TRUE)
                [] OTHER -> app

\* handleRecordingStop: setPartialTranscript('')
HandleRecordingStop == app' = [ app EXCEPT !.partialTranscript = <<>> ]

\* the event keeps the completed turns in ascending key order
KeepsAscending(ev) ==
  (ev.type = "Turn" /\ ev.end_of_turn) => TurnOrderOf(ev) > stream.lastKey

(***************************************************************************)
(* Both handlers on one upstream event stream whose completed turns come   *)
(* in ascending key order.                                                 *)
(***************************************************************************)
BothConnection ==
  /\ Connection
  /\ AppendConnection
  /\ StreamStart
  /\ UNCHANGED app

\* a callback of the append-only handler that sends nothing
AppendQuiet == appendSession' = AppendNoSend /\ UNCHANGED << stream, app >>

BothUpstreamOpen == UpstreamOpen /\ AppendQuiet

BothUpstreamMessage ==
  \E ev \in UpstreamEvents :
    /\ OnMessage(ev)
    /\ KeepsAscending(ev)
    /\ AppendOnMessage(ev)
    /\ StreamNext(ev)
    /\ UNCHANGED app

BothUpstreamError ==
  /\ UpstreamError
  /\ AppendOnError
  /\ UNCHANGED << stream, app >>

BothUpstreamClose ==
  /\ UpstreamClose
  /\ AppendOnClose
  /\ UNCHANGED << stream, app >>

BothClientMessage == ClientMessage /\ AppendQuiet

BothClientClose == ClientClose /\ AppendQuiet

BothNext ==
  \/ BothConnection
  \/ BothUpstreamOpen
  \/ BothUpstreamMessage
  \/ BothUpstreamError
  \/ BothUpstreamClose
  \/ BothClientMessage
  \/ BothClientClose

InitHandlers == Init

SpecHandlers == InitHandlers /\ [][BothNext]_vars

(***************************************************************************)
(* The map-based handler with the browser at the other end of the client   *)
(* socket: a notification is handled by the browser in the step that       *)
(* sends it (the socket keeps the order of the messages).                  *)
(***************************************************************************)
AppConnection ==
  /\ Connection
  /\ HandleRecordingStart
  /\ UNCHANGED << appendSession, stream >>

AppUpstreamOpen == UpstreamOpen /\ UNCHANGED pipeVars

AppUpstreamMessage ==
  /\ UpstreamMessage
  /\ OnClientMessage(emitted')
  /\ UNCHANGED << appendSession, stream >>

AppUpstreamError ==
  /\ UpstreamError
  /\ OnClientMessage(emitted')
  /\ UNCHANGED << appendSession, stream >>

AppUpstreamClose ==
  /\ UpstreamClose
  /\ OnClientMessage(emitted')
  /\ UNCHANGED << appendSession, stream >>

AppClientMessage == ClientMessage /\ UNCHANGED pipeVars

AppClientClose ==
  /\ ClientClose
  /\ HandleRecordingStop
  /\ UNCHANGED << appendSession, stream >>

AppNext ==
  \/ AppConnection
  \/ AppUpstreamOpen
  \/ AppUpstreamMessage
  \/ AppUpstreamError
  \/ AppUpstreamClose
  \/ AppClientMessage
  \/ AppClientClose

InitApp == Init

SpecApp == InitApp /\ [][AppNext]_vars

(***************************************************************************)
(* The AudioRecorder component.  A ref is "null" or "live"; wsRef holds    *)
(* "null" or the readyState of the socket it refers to ("FAILED": the      *)
(* error event has fired and the close event is to come).  detached counts *)
(* the sockets that wsRef no longer refers to and whose close event has    *)
(* not fired yet; their handlers are still attached.                       *)
(***************************************************************************)
MaxDetached == 1

RecorderMounted ==
  [ mounted |-> TRUE, isRecording |-> FALSE, isConnecting |-> FALSE,
    awaitingMedia |-> FALSE, wsRef |-> "null", detached |-> 0,
    streamRef |-> "null", audioContextRef |-> "null", analyserRef |-> "null",
    durationIntervalRef |-> "null", animationFrameRef |-> "null",
    overwrittenStream |-> FALSE, overwrittenTimer |-> FALSE ]

Alive(ws) == ws \in { "CONNECTING", "OPEN", "FAILED" }

\* onClick of the record button while it shows "start": setIsConnecting(true)
\* and the call of getUserMedia
StartRecording ==
  /\ recorder.mounted
  /\ ~recorder.isRecording /\ ~recorder.isConnecting
  /\ ~recorder.awaitingMedia
  /\ recorder' = [ recorder EXCEPT !.isConnecting = TRUE, !.awaitingMedia = TRUE ]

\* getUserMedia rejects: the catch block
MediaRejected ==
  /\ recorder.awaitingMedia
  /\ recorder' = [ recorder EXCEPT !.awaitingMedia = FALSE, !.isConnecting = FALSE ]

\* getUserMedia resolves: the refs are assigned and the socket is created
MediaResolved ==
  /\ recorder.awaitingMedia
  /\ Alive(recorder.wsRef) => recorder.detached < MaxDetached
  /\ recorder' =
       [ recorder EXCEPT
           !.awaitingMedia = FALSE,
           !.overwrittenStream = @ \/ recorder.streamRef = "live",
           !.streamRef = "live",
           !.audioContextRef = "live",
           !.analyserRef = "live",
           !.detached = IF Alive(recorder.wsRef) THEN @ + 1 ELSE @,
           !.wsRef = "CONNECTING" ]

\* wsRef.current.onopen
WsOpen ==
  /\ recorder.wsRef = "CONNECTING"
  /\ recorder' =
       [ recorder EXCEPT
           !.wsRef = "OPEN",
           !.isConnecting = FALSE,
           !.isRecording = TRUE,
           !.overwrittenTimer = @ \/ recorder.durationIntervalRef = "live",
           !.durationIntervalRef = "live",
           !.animationFrameRef = IF recorder.analyserRef = "live" THEN "live" ELSE @ ]

\* wsRef.current.onerror; the close event follows
WsError ==
  /\ recorder.wsRef \in { "CONNECTING", "OPEN" }
  /\ recorder' = [ recorder EXCEPT !.wsRef = "FAILED", !.isConnecting = FALSE ]

\* wsRef.current.onclose of the socket wsRef refers to: the server closed
\* it, or the connection failed
WsClose ==
  /\ recorder.wsRef \in { "OPEN", "FAILED" }
  /\ recorder' = [ recorder EXCEPT !.wsRef = "CLOSED",
                                   !.isRecording = FALSE, !.isConnecting = FALSE ]

\* onclose of a socket that wsRef no longer refers to
DetachedClose ==
  /\ recorder.detached > 0
  /\ recorder' = [ recorder EXCEPT !.detached = @ - 1,
                                   !.isRecording = FALSE, !.isConnecting = FALSE ]

\* stopRecording
Released ==
  [ recorder EXCEPT
      !.durationIntervalRef = "null",
      !.animationFrameRef = "null",
      !.detached = IF Alive(recorder.wsRef) THEN @ + 1 ELSE @,
      !.wsRef = "null",
      !.streamRef = "null",
      !.audioContextRef = "null",
      !.analyserRef = "null",
      !.isRecording = FALSE ]

\* onClick of the record button while it shows "stop"
StopRecording ==
  /\ recorder.mounted
  /\ recorder.isRecording /\ ~recorder.isConnecting
  /\ Alive(recorder.wsRef) => recorder.detached < MaxDetached
  /\ recorder' = Released

\* the cleanup of the effect: stopRecording()
Unmount ==
  /\ recorder.mounted
  /\ Alive(recorder.wsRef) => recorder.detached < MaxDetached
  /\ recorder' = [ Released EXCEPT !.mounted = FALSE ]

RecorderFrame ==
  UNCHANGED << sessionVars, simVars, sumVars, connVars, notesVars, pipeVars >>

RecorderNext ==
  \/ StartRecording /\ RecorderFrame
  \/ MediaRejected /\ RecorderFrame
  \/ MediaResolved /\ RecorderFrame
  \/ WsOpen /\ RecorderFrame
  \/ WsError /\ RecorderFrame
  \/ WsClose /\ RecorderFrame
  \/ DetachedClose /\ RecorderFrame
  \/ StopRecording /\ RecorderFrame
  \/ Unmount /\ RecorderFrame

RecorderInit == recorder = RecorderMounted

InitRecorder ==
  SessionInit /\ SimIdle /\ SumIdle /\ ConnIdle /\ NotesIdle /\ PipeIdle
    /\ RecorderInit

SpecRecorder == InitRecorder /\ [][RecorderNext]_vars

(***************************************************************************)
(* Similarity engine.  A JS number that results from a division is kept as *)
(* the fraction num/den; 0/0 is NaN.                                       *)
(***************************************************************************)
Divide(n, d) ==
  IF d = 0
  THEN [nan |-> n = 0, inf |-> n # 0, num |-> 0, den |-> 1]
  ELSE [nan |-> FALSE, inf |-> FALSE, num |-> n, den |-> d]

Number(n) == [nan |-> FALSE, inf |-> FALSE, num |-> n, den |-> 1]

\* jaccardSimilarity(set1, set2)
JaccardSimilarity(set1, set2) ==
  LET intersection == set1 \cap set2
      union == set1 \cup set2
  IN  IF Cardinality(union) > 0
      THEN Divide(Cardinality(intersection), Cardinality(union))
      ELSE Number(0)

\* String.prototype.split(/\s+/): the pieces between the whitespace runs,
\* with an empty piece before a leading run and after a trailing run
SplitWhitespace(text) ==
  LET n == Len(text)
      word(i) == ~IsSpace(text[i])
      starts == Where([ i \in 1..n |-> word(i) /\ (i = 1 \/ ~word(i - 1)) ], 1, n)
      ends == Where([ i \in 1..n |-> word(i) /\ (i = n \/ ~word(i + 1)) ], 1, n)
      empty == << <<>> >>
  IN  IF n = 0 THEN empty
      ELSE (IF word(1) THEN <<>> ELSE empty)
             \o [ k \in 1..Len(starts) |-> SubSeq(text, starts[k], ends[k]) ]
             \o (IF word(n) THEN <<>> ELSE empty)

\* new Set(text.split(/\s+/).filter(w => w.length > 2))
WordSet(text) ==
  LET parts == SplitWhitespace(text)
  IN  { parts[i] : i \in { j \in 1..Len(parts) : Len(parts[j]) > 2 } }

\* calculateSimilarity(text1, text2)
CalculateSimilarity(text1, text2) ==
  LET words1 == WordSet(text1)
      words2 == WordSet(text2)
      intersection == words1 \cap words2
      union == words1 \cup words2
  IN  Divide(Cardinality(intersection), Cardinality(union))

\* inputs of the similarity functions
TokenSets == SUBSET (1..MaxTokens)

WordPool == { <<"t", "o">>, <<"c", "a", "t">>, <<"d", "o", "g">> }

RECURSIVE WordLists(_)
WordLists(n) ==
  IF n = 0 THEN { <<>> }
  ELSE WordLists(n - 1)
         \cup { Append(l, w) : l \in { x \in WordLists(n - 1) : Len(x) = n - 1 },
                               w \in WordPool }

SimTexts ==
  { Join(l, <<SP>>) : l \in WordLists(MaxWords) }
    \cup { <<SP>> \o Join(l, <<SP, SP>>) \o <<SP>> : l \in WordLists(MaxWords) }

SimInputs ==
  [ fn : {"jaccardSimilarity"}, a : TokenSets, b : TokenSets ]
    \cup [ fn : {"calculateSimilarity"}, a : SimTexts, b : SimTexts ]

SimInit ==
  /\ simIn \in SimInputs
  /\ simOut = <<>>

JaccardSimilarityCall ==
  /\ simOut = <<>>
  /\ simIn.fn = "jaccardSimilarity"
  /\ simOut' = << JaccardSimilarity(simIn.a, simIn.b) >>
  /\ UNCHANGED << simIn, sessionVars, sumVars, connVars, notesVars, pipeVars,
                  recorderVars >>

CalculateSimilarityCall ==
  /\ simOut = <<>>
  /\ simIn.fn = "calculateSimilarity"
  /\ simOut' = << CalculateSimilarity(simIn.a, simIn.b) >>
  /\ UNCHANGED << simIn, sessionVars, sumVars, connVars, notesVars, pipeVars,
                  recorderVars >>

SimNext ==
  \/ JaccardSimilarityCall
  \/ CalculateSimilarityCall

InitSimilarity == SessionInit /\ SimInit /\ SumIdle /\ ConnIdle /\ NotesIdle /\ FrontIdle

SpecSimilarity == InitSimilarity /\ [][SimNext]_vars

(***************************************************************************)
(* Segmenter: splitIntoSentences.  SEP stands for the '|||' the code puts  *)
(* where it splits; the texts of the model do not contain it.  A global    *)
(* replace is given by what it puts in the place of each atom: regular     *)
(* expressions match leftmost first, \s+ takes a whole run of whitespace,  *)
(* and what a match has taken is not matched again.                        *)
(***************************************************************************)
MinSentenceChars == 10
MinClauseChars == 15
MinChunkChars == 15
LongTextChars == 100
FewSentences == 3
ChunkWords == 15

SEP == "|||"

\* the nearest position before i (after i) that holds no whitespace, else 0
RECURSIVE PrevNonSpace(_, _)
PrevNonSpace(s, i) ==
  IF i < 1 THEN 0 ELSE IF IsSpace(s[i]) THEN PrevNonSpace(s, i - 1) ELSE i

NextNonSpace(s, i) == LET j == SkipSpaces(s, i) IN IF j > Len(s) THEN 0 ELSE j

\* String.prototype.split(sep), sep a single-atom separator
SplitOn(s, sep) ==
  LET seps == Where([ i \in 1..Len(s) |-> s[i] = sep ], 1, Len(s))
      from(k) == IF k = 1 THEN 1 ELSE seps[k - 1] + 1
      to(k) == IF k > Len(seps) THEN Len(s) ELSE seps[k] - 1
  IN  [ k \in 1..(Len(seps) + 1) |-> SubSeq(s, from(k), to(k)) ]

\* String.prototype.split('|||')
SplitSep(s) == SplitOn(s, SEP)

\* .map(s => s.trim()).filter(s => s.length > minChars)
TrimAndFilter(pieces, minChars) ==
  Concat([ k \in 1..Len(pieces) |->
             IF StrLen(Trim(pieces[k])) > minChars
             THEN << Trim(pieces[k]) >> ELSE <<>> ])

Terminators == { ".", "!", "?" }

\* .replace(/([.!?])\s+/g, '$1|||')
MarkSentenceEnds(s) ==
  Concat([ i \in 1..Len(s) |->
             IF IsSpace(s[i])
             THEN LET p == PrevNonSpace(s, i)
                  IN  IF p # 0 /\ s[p] \in Terminators THEN <<>> ELSE << s[i] >>
             ELSE IF s[i] \in Terminators /\ i < Len(s) /\ IsSpace(s[i + 1])
                  THEN << s[i], SEP >>
                  ELSE << s[i] >> ])

\* .replace(/,\s+/g, '|||')
MarkCommas(s) ==
  Concat([ i \in 1..Len(s) |->
             IF IsSpace(s[i])
             THEN LET p == PrevNonSpace(s, i)
                  IN  IF p # 0 /\ s[p] = "," THEN <<>> ELSE << s[i] >>
             ELSE IF s[i] = "," /\ i < Len(s) /\ IsSpace(s[i + 1])
                  THEN << SEP >>
                  ELSE << s[i] >> ])

Conjunctions ==
  { "and", "but", "so", "because", "however", "therefore", "then", "also" }

\* position j holds a conjunction that /\s+(and|...)\s+/gi matches: it stands
\* between whitespace, and the whitespace before it was not taken by a match
\* of the conjunction before that whitespace
RECURSIVE ConjunctionMatches(_, _)
ConjunctionMatches(s, j) ==
  /\ 1 < j /\ j < Len(s)
  /\ Lower(s[j]) \in Conjunctions
  /\ IsSpace(s[j - 1]) /\ IsSpace(s[j + 1])
  /\ LET p == PrevNonSpace(s, j - 1)
     IN  p = 0 \/ ~ConjunctionMatches(s, p)

\* .replace(/\s+(and|but|so|because|however|therefore|then|also)\s+/gi, '|||$1 ')
MarkConjunctions(s) ==
  Concat([ i \in 1..Len(s) |->
             IF IsSpace(s[i])
             THEN LET p == PrevNonSpace(s, i)
                      n == NextNonSpace(s, i)
                  IN  IF \/ p # 0 /\ ConjunctionMatches(s, p)
                         \/ n # 0 /\ ConjunctionMatches(s, n)
                      THEN <<>> ELSE << s[i] >>
             ELSE IF ConjunctionMatches(s, i)
                  THEN << SEP, s[i], SP >>
                  ELSE << s[i] >> ])

\* words.slice(i, i + 15).join(' ') for i = 0, 15, 30, ...
RECURSIVE WordChunks(_)
WordChunks(words) ==
  IF words = <<>> THEN <<>>
  ELSE LET n == IF Len(words) < ChunkWords THEN Len(words) ELSE ChunkWords
           chunk == Join(SubSeq(words, 1, n), <<SP>>)
       IN  (IF StrLen(chunk) > MinChunkChars THEN <<chunk>> ELSE <<>>)
             \o WordChunks(SubSeq(words, n + 1, Len(words)))

SplitIntoSentencesChunkShortMutant(text) ==
  LET tooFew(sentences) == Len(sentences) < FewSentences
      byPunctuation ==
        TrimAndFilter(SplitSep(MarkSentenceEnds(text)), MinSentenceChars)
      byPauses ==
        IF tooFew(byPunctuation) /\ StrLen(text) > LongTextChars
        THEN TrimAndFilter(SplitSep(MarkConjunctions(MarkCommas(text))),
                           MinClauseChars)
        ELSE byPunctuation
  IN  IF tooFew(byPauses) THEN WordChunks(SplitWhitespace(text)) ELSE byPauses

\* lines 343-375
SplitIntoSentences(text) ==
  LET tooFew(sentences) ==
        Len(sentences) < FewSentences /\ StrLen(text) > LongTextChars
      byPunctuation ==
        TrimAndFilter(SplitSep(MarkSentenceEnds(text)), MinSentenceChars)
      byPauses ==
        IF tooFew(byPunctuation)
        THEN TrimAndFilter(SplitSep(MarkConjunctions(MarkCommas(text))),
                           MinClauseChars)
        ELSE byPunctuation
  IN  IF tooFew(byPauses) THEN WordChunks(SplitWhitespace(text)) ELSE byPauses

(***************************************************************************)
(* Extractive summarizer: generateAdvancedSummary.  A text is given by its *)
(* number of whitespace-separated words and by the segments                *)
(* splitIntoSentences returns for it, each with its combined score         *)
(* (tfidf * position * keyword); index is the 0-based document position.   *)
(***************************************************************************)
ShortTextWords == 30
MinSummarySentences == 2
MaxSummarySentences == 5

Min(a, b) == IF a < b THEN a ELSE b
Max(a, b) == IF a > b THEN a ELSE b

\* Math.ceil(sentenceCount * 0.3)
Ceil03(n) == (3 * n + 9) \div 10

\* Math.min(Math.max(2, Math.ceil(sentenceCount * 0.3)), 5)
TargetSentences(sentenceCount) ==
  Min(Max(MinSummarySentences, Ceil03(sentenceCount)), MaxSummarySentences)

\* [...combinedScores].sort((a, b) => b.score - a.score): stable, descending
RECURSIVE InsertByScore(_, _)
InsertByScore(e, sorted) ==
  IF sorted = <<>> THEN <<e>>
  ELSE IF e.score - Head(sorted).score > 0
       THEN <<e>> \o sorted
       ELSE <<Head(sorted)>> \o InsertByScore(e, Tail(sorted))

RECURSIVE RankSentences(_)
RankSentences(items) ==
  IF items = <<>> THEN <<>>
  ELSE InsertByScore(items[Len(items)],
                     RankSentences(SubSeq(items, 1, Len(items) - 1)))

RECURSIVE SelectTopOffByOneMutant(_, _, _)
SelectTopOffByOneMutant(ranked, summaryParts, target) ==
  IF ranked = <<>> \/ Len(summaryParts) > target THEN summaryParts
  ELSE SelectTopOffByOneMutant(Tail(ranked), Append(summaryParts, Head(ranked)),
                               target)

\* lines 489-493: take ranked items until summaryParts holds target of them
RECURSIVE SelectTop(_, _, _)
SelectTop(ranked, summaryParts, target) ==
  IF ranked = <<>> \/ Len(summaryParts) >= target THEN summaryParts
  ELSE SelectTop(Tail(ranked), Append(summaryParts, Head(ranked)), target)

InsertByIndexRankOrderMutant(e, sorted) == Append(sorted, e)

\* summaryParts.sort((a, b) => a.index - b.index)
RECURSIVE InsertByIndex(_, _)
InsertByIndex(e, sorted) ==
  IF sorted = <<>> THEN <<e>>
  ELSE IF Head(sorted).index - e.index > 0
       THEN <<e>> \o sorted
       ELSE <<Head(sorted)>> \o InsertByIndex(e, Tail(sorted))

RECURSIVE SortByIndex(_)
SortByIndex(items) ==
  IF items = <<>> THEN <<>>
  ELSE InsertByIndex(items[Len(items)],
                     SortByIndex(SubSeq(items, 1, Len(items) - 1)))

GenerateAdvancedSummary(in) ==
  IF in.wordCount = 0
  THEN [ branch |-> "empty", wordCount |-> 0, sentenceCount |-> 0,
         selected |-> <<>>, summaryParts |-> <<>> ]
  ELSE IF in.wordCount < ShortTextWords
  THEN [ branch |-> "short", wordCount |-> in.wordCount, sentenceCount |-> 1,
         selected |-> <<>>, summaryParts |-> <<>> ]
  ELSE LET sentenceCount == Len(in.segments)
           rankedSentences == RankSentences(in.segments)
           targetSentences == TargetSentences(sentenceCount)
           selected == SelectTop(rankedSentences, <<>>, targetSentences)
       IN  [ branch |-> "ranked", wordCount |-> in.wordCount,
             sentenceCount |-> sentenceCount,
             selected |-> [ i \in 1..Len(selected) |-> selected[i].index ],
             summaryParts |->
               LET parts == SortByIndex(selected)
               IN  [ i \in 1..Len(parts) |-> parts[i].index ] ]

\* inputs of the summarizer: the pattern of scores is repeated over the
\* segments, or gives the scores of the first or of the last PatternLen
\* segments (the others score 0)
ScoreAt(i, n, pattern, layout) ==
  CASE layout = "repeat" -> pattern[((i - 1) % PatternLen) + 1]
    [] layout = "head" -> IF i <= PatternLen THEN pattern[i] ELSE 0
    [] layout = "tail" -> IF i > n - PatternLen /\ n >= PatternLen
                          THEN pattern[i - (n - PatternLen)] ELSE 0

Segments(n, pattern, layout) ==
  [ i \in 1..n |-> [ index |-> i - 1, score |-> ScoreAt(i, n, pattern, layout) ] ]

SumInputs ==
  { [ wordCount |-> w, segments |-> Segments(n, pattern, layout) ] :
      w \in {0, ShortTextWords - 1, ShortTextWords},
      n \in 0..MaxSegments,
      pattern \in [1..PatternLen -> 0..MaxScore],
      layout \in {"repeat", "head", "tail"} }

(***************************************************************************)
(* generateAdvancedSummary on a text.  The combined score of a segment     *)
(* (tfidf * position * keyword, a real number) is not computed: it is an   *)
(* input, given as for Segments.                                           *)
(***************************************************************************)
MaxKeyPoints == 5
MinKeyPoints == 3
MaxActionItems == 5
SummaryFallbackChars == 200

ActionWords ==
  { "must", "should", "will", "todo", "task", "action", "deadline", "by",
    "until", "before" }

ActionPhrases ==
  { <<"need", "to">>, <<"have", "to">>, <<"going", "to">>, <<"plan", "to">> }

\* /\b(need to|have to|must|should|will|going to|plan to|todo|task|action|
\*    deadline|by|until|before)\b/i.test(sentence)
IsAction(sentence) ==
  \E i \in 1..Len(sentence) :
    \/ Lower(sentence[i]) \in ActionWords
    \/ /\ i + 2 <= Len(sentence)
       /\ sentence[i + 1] = SP
       /\ << Lower(sentence[i]), Lower(sentence[i + 2]) >> \in ActionPhrases

IsBlankNoTrimMutant(text) == text = <<>>

\* !text || text.trim().length === 0
IsBlank(text) == text = <<>> \/ StrLen(Trim(text)) = 0

IsShortOffByOneMutant(wordCount) == wordCount < ShortTextWords - 1

\* wordCount < 30
IsShort(wordCount) == wordCount < ShortTextWords

\* the number of '.' that end at position i without a break
RECURSIVE DotsUpTo(_, _)
DotsUpTo(s, i) == IF i < 1 \/ s[i] # "." THEN 0 ELSE 1 + DotsUpTo(s, i - 1)

\* .replace(/\.\./g, '.'): of every two '.' in a row the second one goes
CollapseDots(s) ==
  Concat([ i \in 1..Len(s) |->
             IF s[i] = "." /\ DotsUpTo(s, i) % 2 = 0 THEN <<>> ELSE << s[i] >> ])

\* String.prototype.substring(0, n), cut between atoms
Substring(s, n) ==
  LET fits == { j \in 0..Len(s) : StrLenOf(s, 1, j) <= n }
  IN  SubSeq(s, 1, CHOOSE j \in fits : \A k \in fits : k <= j)

\* Array.prototype.slice(0, n)
Take(items, n) == SubSeq(items, 1, Min(n, Len(items)))

\* .filter(item => item.isAction)
RECURSIVE FilterActions(_)
FilterActions(items) ==
  IF items = <<>> THEN <<>>
  ELSE (IF Head(items).isAction THEN <<Head(items)>> ELSE <<>>)
         \o FilterActions(Tail(items))

FilterUnselectedKeepAllMutant(items, selectedIndices) == items

\* .filter(item => !selectedIndices.has(item.index))
RECURSIVE FilterUnselected(_, _)
FilterUnselected(items, selectedIndices) ==
  IF items = <<>> THEN <<>>
  ELSE (IF Head(items).index \notin selectedIndices THEN <<Head(items)>> ELSE <<>>)
         \o FilterUnselected(Tail(items), selectedIndices)

\* Array.prototype.includes
Contains(items, x) == \E i \in 1..Len(items) : items[i] = x

\* lines 506-512: summary sentences fill the key points up
RECURSIVE Backfill(_, _)
Backfill(keyPoints, sentences) ==
  IF sentences = <<>> THEN keyPoints
  ELSE Backfill(IF Len(keyPoints) < MaxKeyPoints /\ ~Contains(keyPoints, Head(sentences))
                THEN Append(keyPoints, Head(sentences))
                ELSE keyPoints,
                Tail(sentences))

ActionItemsOfUncappedMutant(combinedScores) ==
  LET items == FilterActions(combinedScores)
  IN  [ i \in 1..Len(items) |-> items[i].sentence ]

\* lines 515-518
ActionItemsOf(combinedScores) ==
  LET items == Take(FilterActions(combinedScores), MaxActionItems)
  IN  [ i \in 1..Len(items) |-> items[i].sentence ]

Summarize(text, scoring) ==
  IF IsBlank(text)
  THEN [ keyPoints |-> <<>>, summary |-> <<>>, actionItems |-> <<>>,
         wordCount |-> 0, sentenceCount |-> 0 ]
  ELSE
    LET cleanText == Trim(text)
        words == SplitWhitespace(cleanText)
        wordCount == Len(words)
    IN  IF IsShort(wordCount)
        THEN [ keyPoints |-> <<cleanText>>, summary |-> cleanText,
               actionItems |-> <<>>, wordCount |-> wordCount, sentenceCount |-> 1 ]
        ELSE
          LET sentences == SplitIntoSentences(cleanText)
              sentenceCount == Len(sentences)
              combinedScores ==
                [ i \in 1..sentenceCount |->
                    [ sentence |-> sentences[i],
                      index |-> i - 1,
                      score |-> ScoreAt(i, sentenceCount, scoring.pattern,
                                        scoring.layout),
                      isAction |-> IsAction(sentences[i]) ] ]
              rankedSentences == RankSentences(combinedScores)
              selection == GenerateAdvancedSummary(
                             [ wordCount |-> wordCount, segments |-> combinedScores ])
              selectedIndices ==
                { selection.selected[i] : i \in 1..Len(selection.selected) }
              summaryParts ==
                [ i \in 1..Len(selection.summaryParts) |->
                    sentences[selection.summaryParts[i] + 1] ]
              summary == CollapseDots(Join(summaryParts, <<".", SP>>))
              others == Take(FilterUnselected(rankedSentences, selectedIndices),
                             MaxKeyPoints)
              keyPoints == [ i \in 1..Len(others) |-> others[i].sentence ]
          IN  [ keyPoints |-> IF Len(keyPoints) < MinKeyPoints
                              THEN Backfill(keyPoints, summaryParts)
                              ELSE keyPoints,
                summary |-> IF summary # <<>> THEN summary
                            ELSE Substring(cleanText, SummaryFallbackChars)
                                   \o <<".", ".", ".">>,
                actionItems |-> ActionItemsOf(combinedScores),
                wordCount |-> wordCount,
                sentenceCount |-> sentenceCount,
                compressionRatio |->
                  Divide(Len(SplitWhitespace(summary)) * 100, wordCount) ]

SumInit ==
  /\ sumIn \in SumInputs
  /\ sumOut = <<>>

GenerateAdvancedSummaryCall ==
  /\ sumOut = <<>>
  /\ sumOut' = << GenerateAdvancedSummary(sumIn) >>
  /\ UNCHANGED << sumIn, sessionVars, simVars, connVars, notesVars, pipeVars,
                  recorderVars >>

SumNext == GenerateAdvancedSummaryCall

InitSummary == SessionInit /\ SimIdle /\ SumInit /\ ConnIdle /\ NotesIdle /\ FrontIdle

SpecSummary == InitSummary /\ [][SumNext]_vars

(***************************************************************************)
(* Summarizing texts: POST /api/summarize hands any non-blank string to    *)
(* generateAdvancedSummary, and generateEnhancedNotes hands it any string. *)
(* The texts are built from the sentences of the example of the summarizer *)
(* and from unpunctuated runs of words around the 30-word limit.           *)
(***************************************************************************)
MaxRepeats == 3

\* words with single blanks between them, and the same ended by a full stop
WordsText(ws) == Join([ i \in 1..Len(ws) |-> << ws[i] >> ], <<SP>>)
SentenceText(ws) == WordsText(ws) \o <<".">>

\* n copies of a text with single blanks between them
Repeat(text, n) == Join([ i \in 1..n |-> text ], <<SP>>)

ImportantSentence == SentenceText(<< "This", "is", "important" >>)
ObligationSentence ==
  SentenceText(<< "We", "must", "finish", "the", "report", "by", "Friday" >>)
FillerSentence == SentenceText(<< "The", "weather", "was", "nice" >>)

Scenario ==
  Join(<< ImportantSentence, ObligationSentence, FillerSentence >>, <<SP>>)

\* no full stop, more than 100 characters: split at the commas and the
\* conjunctions
Clauses ==
  << WordsText(<< "we", "reviewed", "the", "budget", "numbers", "with", "finance" >>),
     WordsText(<< "But", "the", "timeline", "slipped", "again", "so", "the",
                  "team", "agreed", "on", "a", "new", "plan" >>),
     WordsText(<< "the", "client", "wants", "results", "because", "the",
                  "launch", "is", "near" >>),
     WordsText(<< "then", "we", "closed", "the", "meeting" >>) >>

ClauseText == Join(Clauses, << ",", SP >>)

\* four sentences, 30 words
ClosingSentence ==
  SentenceText(<< "then", "we", "closed", "the", "meeting", "and", "the", "team",
                  "agreed", "on", "a", "new", "plan", "for", "the", "launch" >>)

Minutes == Join(<< Scenario, ClosingSentence >>, <<SP>>)

\* seven sentences, six of them with an obligation or intent word
TaskSentences ==
  << ObligationSentence,
     SentenceText(<< "We", "should", "review", "the", "budget", "before", "launch" >>),
     SentenceText(<< "The", "team", "will", "discuss", "the", "timeline", "again" >>),
     FillerSentence,
     SentenceText(<< "We", "need", "to", "finish", "the", "plan" >>),
     SentenceText(<< "The", "deadline", "was", "moved" >>),
     SentenceText(<< "This", "task", "is", "important" >>) >>

Tasks == Join(TaskSentences, <<SP>>)

BlankTexts == { <<>>, <<SP>>, << NL, SP >> }

Texts ==
  BlankTexts
    \cup { Repeat(Scenario, r) : r \in 1..MaxRepeats }
    \cup { <<SP>> \o Scenario \o <<NL>> }
    \cup { Repeat(<<"alpha">>, n) :
             n \in { ShortTextWords - 1, ShortTextWords, ShortTextWords + 1 } }
    \cup { <<NL>> \o Repeat(<<"alpha">>, ShortTextWords - 1) \o <<SP>> }
    \cup { Repeat(<< "a", "." >>, ShortTextWords) }
    \cup { Repeat(ObligationSentence, MaxActionItems + 1) }
    \cup { ClauseText, Minutes, Tasks }

TextInputs ==
  [ text : Texts,
    pattern : [ 1..PatternLen -> 0..MaxScore ],
    layout : { "repeat", "head", "tail" } ]

TextInit ==
  /\ sumIn \in TextInputs
  /\ sumOut = <<>>

SummarizeCall ==
  /\ sumOut = <<>>
  /\ sumOut' = << Summarize(sumIn.text, sumIn) >>
  /\ UNCHANGED << sumIn, sessionVars, simVars, connVars, notesVars, pipeVars,
                  recorderVars >>

TextNext == SummarizeCall

InitText == SessionInit /\ SimIdle /\ TextInit /\ ConnIdle /\ NotesIdle /\ FrontIdle

SpecText == InitText /\ [][TextNext]_vars

(***************************************************************************)
(* splitIntoSentences on its own.  A text is up to MaxPieces phrases, one  *)
(* of them too short to be kept, joined by one kind of separator, with or  *)
(* without a final full stop.                                              *)
(***************************************************************************)
MaxPieces == 4

Phrases ==
  << << "go" >>,
     WordsText(<< "call", "the", "client" >>),
     WordsText(<< "we", "reviewed", "the", "budget", "numbers", "with", "finance" >>) >>

Separators == { << ".", SP >>, << ",", SP >>, << SP, "and", SP >>, << SP >> }

SegTexts ==
  { Join([ i \in 1..n |-> Phrases[f[i]] ], sep) \o end :
      n \in 1..MaxPieces, f \in [ 1..MaxPieces -> 1..Len(Phrases) ],
      sep \in Separators, end \in { <<>>, << "." >> } }

SegInputs == [ text : SegTexts ]

SegInit ==
  /\ sumIn \in SegInputs
  /\ sumOut = <<>>

SplitIntoSentencesCall ==
  /\ sumOut = <<>>
  /\ sumOut' = << [ sentences |-> SplitIntoSentences(sumIn.text) ] >>
  /\ UNCHANGED << sumIn, sessionVars, simVars, connVars, notesVars, pipeVars,
                  recorderVars >>

SegNext == SplitIntoSentencesCall

InitSegments == SessionInit /\ SimIdle /\ SegInit /\ ConnIdle /\ NotesIdle /\ FrontIdle

SpecSegments == InitSegments /\ [][SegNext]_vars

(***************************************************************************)
(* Note enhancement: generateEnhancedNotes.  The document is kept as the   *)
(* sequence of its lines: the code ends every line it appends with '\n'.   *)
(***************************************************************************)
MinTopicChars == 3
MaxTopics == 20
DuplicateTenths == 4
MinInfoChars == 20
MaxRelated == 6
MaxNew == 5
MaxDocumentKeyPoints == 5

STOP_WORDS ==
  { "i", "me", "my", "myself", "we", "our", "ours", "ourselves", "you", "your",
    "yours", "yourself", "yourselves", "he", "him", "his", "himself", "she",
    "her", "hers", "herself", "it", "its", "itself", "they", "them", "their",
    "theirs", "themselves", "what", "which", "who", "whom", "this", "that",
    "these", "those", "am", "is", "are", "was", "were", "be", "been", "being",
    "have", "has", "had", "having", "do", "does", "did", "doing", "a", "an",
    "the", "and", "but", "if", "or", "because", "as", "until", "while", "of",
    "at", "by", "for", "with", "about", "against", "between", "into",
    "through", "during", "before", "after", "above", "below", "to", "from",
    "up", "down", "in", "out", "on", "off", "over", "under", "again",
    "further", "then", "once", "here", "there", "when", "where", "why", "how",
    "all", "each", "few", "more", "most", "other", "some", "such", "no", "nor",
    "not", "only", "own", "same", "so", "than", "too", "very", "s", "t", "can",
    "will", "just", "don", "should", "now", "d", "ll", "m", "o", "re", "ve",
    "y", "ain", "aren", "couldn", "didn", "doesn", "hadn", "hasn", "haven",
    "isn", "ma", "mightn", "mustn", "needn", "shan", "shouldn", "wasn",
    "weren", "won", "wouldn", "um", "uh", "like", "know", "yeah", "okay", "ok",
    "right", "well", "going", "got", "get", "thing", "things", "way", "would",
    "could", "also", "really", "actually", "basically", "think", "something",
    "kind" }

\* the atoms of the model that [^\w\s] matches, and those that \d+ matches
Punctuation == { ".", ",", "!", "?", "-", "*", "#", "[", "]", ":", "'" }
Numerals == { "1", "2", "3" }

\* tokenize(text)
Tokenize(text) ==
  Concat([ i \in 1..Len(text) |->
             IF IsSpace(text[i]) \/ text[i] \in Punctuation \/ Len(text[i]) <= 1
             THEN <<>> ELSE << Lower(text[i]) >> ])

\* getContentWords(text)
GetContentWords(text) ==
  LET words == Tokenize(text)
  IN  Concat([ i \in 1..Len(words) |->
                 IF words[i] \notin STOP_WORDS /\ Len(words[i]) > 2
                 THEN << words[i] >> ELSE <<>> ])

\* new Set(getContentWords(text))
ContentSet(text) ==
  LET words == GetContentWords(text) IN { words[i] : i \in 1..Len(words) }

\* Array.prototype.sort((a, b) => keys(b) - keys(a)), which is stable
SortDescending(items, keys) ==
  LET before(i) ==
        { j \in 1..Len(items) : keys[j] > keys[i] \/ (keys[j] = keys[i] /\ j < i) }
  IN  [ p \in 1..Len(items) |->
          items[CHOOSE i \in 1..Len(items) : Cardinality(before(i)) = p - 1] ]

\* lines 536-539
NoteLines(existingNotes) == TrimAndFilter(SplitOn(existingNotes, NL), 0)

\* lines 542-558: the words of the topic map in the order of their first
\* occurrence, sorted by their counts, the first 20
TopTopics(noteLines) ==
  LET perLine == [ k \in 1..Len(noteLines) |-> GetContentWords(noteLines[k]) ]
      all == Concat(perLine)
      long == Concat([ i \in 1..Len(all) |->
                         IF Len(all[i]) > MinTopicChars THEN << all[i] >> ELSE <<>> ])
      firsts == Where([ i \in 1..Len(long) |->
                          \A j \in 1..(i - 1) : long[j] # long[i] ], 1, Len(long))
      words == [ k \in 1..Len(firsts) |-> long[firsts[k]] ]
      counts == [ k \in 1..Len(words) |->
                    Cardinality({ i \in 1..Len(long) : long[i] = words[k] }) ]
      top == Take(SortDescending(words, counts), MaxTopics)
  IN  { top[k] : k \in 1..Len(top) }

\* similarity > 0.4
AboveThreshold(similarity) ==
  /\ ~similarity.nan
  /\ similarity.inf \/ similarity.num * 10 > DuplicateTenths * similarity.den

IsDuplicateNeverMutant(noteLines, sentenceWords) == FALSE

\* lines 573-579
IsDuplicate(noteLines, sentenceWords) ==
  \E k \in 1..Len(noteLines) :
    AboveThreshold(JaccardSimilarity(ContentSet(noteLines[k]), sentenceWords))

\* lines 568-588: what the loop pushes for one sentence
ClassifySentence(sentence, noteLines, topTopics) ==
  LET sentenceWords == ContentSet(sentence)
      matchingTopics == sentenceWords \cap topTopics
  IN  IF ~IsDuplicate(noteLines, sentenceWords) /\ StrLen(sentence) > MinInfoChars
      THEN IF Cardinality(matchingTopics) >= 1
           THEN [ list |-> "relatedInfo", sentence |-> sentence,
                  matchCount |-> Cardinality(matchingTopics) ]
           ELSE [ list |-> "newInfo", sentence |-> sentence, matchCount |-> 0 ]
      ELSE [ list |-> "none", sentence |-> sentence, matchCount |-> 0 ]

\* the sentences pushed to a list, in the order of the loop
Pushed(classified, list) ==
  Concat([ i \in 1..Len(classified) |->
             IF classified[i].list = list THEN << classified[i] >> ELSE <<>> ])

Heading(ws) == << "#", "#", SP >> \o WordsText(ws)
Title == << "#", SP >> \o WordsText(<< "Enhanced", "Notes" >>)
OriginalNotesHeading == Heading(<< "Original", "Notes" >>)
RelatedHeading == Heading(<< "Expanded", "Details", "from", "Recording" >>)
NewHeading == Heading(<< "New", "Information", "from", "Recording" >>)
KeyPointsHeading == Heading(<< "Key", "Points" >>)
ActionItemsHeading == Heading(<< "Action", "Items" >>)
SummaryHeading == Heading(<< "Recording", "Summary" >>)
RelatedCaption ==
  WordsText(<< "_Information", "from", "the", "recording", "that", "relates",
               "to", "your", "notes" >>) \o << ":", "_" >>
NewCaption ==
  WordsText(<< "_Additional", "topics", "discussed", "that", "weren" >>)
    \o << "'" >>
    \o WordsText(<< "t", "in", "your", "original", "notes" >>) \o << ":", "_" >>

Bullet(text) == << "-", SP >> \o text
CheckBox(text) == << "-", SP, "[", SP, "]", SP >> \o text
Bullets(items) == [ i \in 1..Len(items) |-> Bullet(items[i]) ]

NoteItemAlwaysPrefixMutant(line) == Bullet(line)

\* lines 599-603
NoteItem(line) ==
  IF \/ line[1] = "-"
     \/ line[1] = "*"
     \/ Len(line) >= 2 /\ line[1] \in Numerals /\ line[2] = "."
  THEN line
  ELSE Bullet(line)

\* a section of lines 608-643: nothing when it has no entry
Section(heading, caption, entries) ==
  IF Len(entries) > 0
  THEN << heading >> \o caption \o entries \o << <<>> >>
  ELSE <<>>

\* lines 568-588: the loop over the transcript sentences
Classify(transcriptSentences, noteLines, topTopics) ==
  Concat([ i \in 1..Len(transcriptSentences) |->
             << ClassifySentence(transcriptSentences[i], noteLines, topTopics) >> ])

\* line 591
SortRelated(pushed) ==
  SortDescending(pushed, [ i \in 1..Len(pushed) |-> pushed[i].matchCount ])

SentencesOf(items) == [ i \in 1..Len(items) |-> items[i].sentence ]

\* lines 593-649
Compose(noteLines, relatedInfo, newInfo, transcriptSummary) ==
  << Title, <<>> >>
    \o << OriginalNotesHeading >>
    \o [ i \in 1..Len(noteLines) |-> NoteItem(noteLines[i]) ]
    \o << <<>> >>
    \o Section(RelatedHeading, << RelatedCaption, <<>> >>,
               Bullets(Take(SentencesOf(relatedInfo), MaxRelated)))
    \o Section(NewHeading, << NewCaption, <<>> >>,
               Bullets(Take(SentencesOf(newInfo), MaxNew)))
    \o Section(KeyPointsHeading, <<>>,
               Bullets(Take(transcriptSummary.keyPoints, MaxDocumentKeyPoints)))
    \o Section(ActionItemsHeading, <<>>,
               [ i \in 1..Len(transcriptSummary.actionItems) |->
                   CheckBox(transcriptSummary.actionItems[i]) ])
    \o << SummaryHeading, transcriptSummary.summary >>

\* POST /api/enhance-notes: both strings are non-empty
BudgetNotes ==
  Join(<< Bullet(WordsText(<< "Discuss", "budget" >>)),
          Bullet(WordsText(<< "Review", "timeline" >>)) >>, <<NL>>)

MixedNotes ==
  Join(<< WordsText(<< "budget", "discussion", "went", "well" >>),
          <<>>,
          << SP, SP, "*", SP >> \o WordsText(<< "Review", "timeline" >>) \o <<SP>>,
          << "1", ".", SP, "Budget" >>,
          << "-", "timeline" >>,
          WordsText(<< "budget", "discussion", "went", "well" >>),
          <<SP>> >>, <<NL>>)

ManyTopicsNotes ==
  WordsText(<< "alpha", "bravo", "charlie", "delta", "echo", "foxtrot", "golf",
               "hotel", "india", "juliet", "kilo", "lima", "mike", "november",
               "oscar", "papa", "quebec", "romeo", "sierra", "tango",
               "uniform" >>)

NotesTexts == { BudgetNotes, MixedNotes, ManyTopicsNotes, <<SP>> }

BudgetSentence ==
  SentenceText(<< "The", "budget", "discussion", "went", "well", "and", "we",
                  "agreed", "on", "a", "new", "timeline", "for", "next",
                  "quarter" >>)
WentWellSentence == SentenceText(<< "The", "budget", "discussion", "went", "well" >>)
TimelineSentence ==
  SentenceText(<< "We", "reviewed", "the", "timeline", "yesterday", "morning" >>)
ReviewSentence ==
  SentenceText(<< "The", "budget", "needs", "a", "careful", "review", "today" >>)
UniformSentence ==
  SentenceText(<< "uniform", "shipment", "arrived", "yesterday", "morning" >>)

Transcriptions ==
  { BudgetSentence,
    Scenario,
    Join(<< WentWellSentence, TimelineSentence, ReviewSentence >>, <<SP>>),
    Repeat(ReviewSentence, MaxRelated + 1),
    Repeat(ObligationSentence, MaxNew + 1),
    UniformSentence,
    <<SP>> }

NotesInputs ==
  [ existingNotes : NotesTexts,
    transcription : Transcriptions,
    pattern : [ 1..PatternLen -> 0..MaxScore ],
    layout : { "repeat" } ]

NotesInit ==
  /\ notesIn \in NotesInputs
  /\ notesOut = <<>>

\* generateEnhancedNotes(existingNotes, transcription): the locals of the
\* function are bound one after the other
GenerateEnhancedNotesCall ==
  /\ notesOut = <<>>
  /\ \E noteLines \in { NoteLines(notesIn.existingNotes) } :
     \E topTopics \in { TopTopics(noteLines) } :
     \E transcriptSentences \in { SplitIntoSentences(notesIn.transcription) } :
     \E transcriptSummary \in { Summarize(notesIn.transcription, notesIn) } :
     \E classified \in { Classify(transcriptSentences, noteLines, topTopics) } :
     \E relatedInfo \in { SortRelated(Pushed(classified, "relatedInfo")) } :
     \E newInfo \in { Pushed(classified, "newInfo") } :
       notesOut' = << [ relatedInfo |-> SentencesOf(relatedInfo),
                        newInfo |-> SentencesOf(newInfo),
                        enhanced |-> Compose(noteLines, relatedInfo, newInfo,
                                             transcriptSummary) ] >>
  /\ UNCHANGED << notesIn, sessionVars, simVars, sumVars, connVars, pipeVars,
                  recorderVars >>

NotesNext == GenerateEnhancedNotesCall

InitNotes == SessionInit /\ SimIdle /\ SumIdle /\ ConnIdle /\ NotesInit /\ FrontIdle

SpecNotes == InitNotes /\ [][NotesNext]_vars

(***************************************************************************)
(* Concurrent connections.  Every wss.on('connection') call has its own    *)
(* closure (clientWs, assemblyWs, sessionId, completedTurns,               *)
(* currentPartialText); the activeSessions Map is the one object of the    *)
(* module the connections share.  Callbacks run to completion, one at a    *)
(* time, in any order.  sessionId starts as Date.now().toString(), which   *)
(* two connections made in the same millisecond share; the provider's ids  *)
(* are distinct.                                                           *)
(***************************************************************************)
Conns == { "c1", "c2" }

LocalIds == { "t1", "t2" }

ProviderIdOf(c) == IF c = "c1" THEN "p1" ELSE "p2"

\* the messages a provider sends on one connection
ConnEvents ==
  { ev \in TurnEvents : ev.turn_order = <<>> }
    \cup { [type |-> "Begin"], [type |-> "Termination"], [type |-> "Malformed"] }

NewConn ==
  [ client |-> "NONE", upstream |-> "NONE", sessionId |-> "t1",
    completedTurns |-> <<>>, currentPartialText |-> <<>> ]

\* Map.prototype.set and Map.prototype.delete on activeSessions
RegistrySet(reg, id, c) == { e \in reg : e[1] # id } \cup { <<id, c>> }
RegistryDelete(reg, id) == { e \in reg : e[1] # id }

\* clientWs.send of connection c
SendTo(c, n) == outbox' = [ x \in Conns |-> IF x = c THEN <<n>> ELSE <<>> ]
SendNothing == outbox' = [ x \in Conns |-> <<>> ]

ConnConnection(c) ==
  /\ conn[c].client = "NONE"
  /\ \E id \in LocalIds :
       /\ conn' = [ conn EXCEPT ![c] = [ NewConn EXCEPT !.client = "OPEN",
                                                        !.upstream = "CONNECTING",
                                                        !.sessionId = id ] ]
       /\ registry' = RegistrySet(registry, id, c)
  /\ SendNothing

ConnUpstreamOpen(c) ==
  /\ conn[c].upstream = "CONNECTING"
  /\ conn' = [ conn EXCEPT ![c].upstream = "OPEN" ]
  /\ SendNothing
  /\ UNCHANGED registry

ConnCommitSharedMapMutant(c, order, turnText) ==
  /\ conn' = [ x \in Conns |->
                 [ conn[x] EXCEPT
                     !.completedTurns = MapSet(conn[c].completedTurns, order, turnText),
                     !.currentPartialText =
                        IF x = c THEN <<>> ELSE conn[x].currentPartialText ] ]
  /\ SendTo(c, [ type |-> "final_transcript", text |-> turnText,
                 fullTranscript |-> BuildFullTranscript(conn'[c].completedTurns) ])

\* lines 113-125 in the closure of connection c
ConnCommit(c, order, turnText) ==
  /\ conn' = [ conn EXCEPT
                 ![c].completedTurns = MapSet(conn[c].completedTurns, order, turnText),
                 ![c].currentPartialText = <<>> ]
  /\ SendTo(c, [ type |-> "final_transcript", text |-> turnText,
                 fullTranscript |-> BuildFullTranscript(conn'[c].completedTurns) ])

ConnOnMessage(c, ev) ==
  CASE ev.type = "Begin" ->
         /\ conn[c].sessionId \in LocalIds
         /\ conn' = [ conn EXCEPT ![c].sessionId = ProviderIdOf(c) ]
         /\ SendTo(c, [ type |-> "session_start", sessionId |-> ProviderIdOf(c) ])
    [] ev.type = "Turn" ->
         IF ev.end_of_turn
         THEN IF Truthy(TurnTextOf(ev))
                 /\ ~Has(conn[c].completedTurns, TurnOrderOf(ev))
              THEN ConnCommit(c, TurnOrderOf(ev), TurnTextOf(ev))
              ELSE SendNothing /\ UNCHANGED conn
         ELSE IF Truthy(ev.transcript)
              THEN /\ conn' = [ conn EXCEPT ![c].currentPartialText = ev.transcript ]
                   /\ SendTo(c, [ type |-> "partial_transcript",
                                  text |-> ev.transcript ])
              ELSE SendNothing /\ UNCHANGED conn
    [] ev.type = "Termination" ->
         /\ SendTo(c, [ type |-> "session_end",
                        fullTranscript |-> BuildFullTranscript(conn[c].completedTurns) ])
         /\ UNCHANGED conn
    [] OTHER -> SendNothing /\ UNCHANGED conn

ConnUpstreamMessage(c) ==
  /\ conn[c].upstream \in {"OPEN", "CLOSING"}
  /\ \E ev \in ConnEvents : ConnOnMessage(c, ev)
  /\ UNCHANGED registry

ConnUpstreamError(c) ==
  /\ conn[c].upstream \in {"CONNECTING", "OPEN", "CLOSING"}
  /\ SendTo(c, [type |-> "error"])
  /\ UNCHANGED << conn, registry >>

ConnUpstreamClose(c) ==
  /\ conn[c].upstream \in {"CONNECTING", "OPEN", "CLOSING"}
  /\ conn' = [ conn EXCEPT ![c].upstream = "CLOSED" ]
  /\ IF conn[c].client = "OPEN"
     THEN SendTo(c, [ type |-> "session_end",
                      fullTranscript |-> BuildFullTranscript(conn[c].completedTurns) ])
     ELSE SendNothing
  /\ UNCHANGED registry

ConnClientClose(c) ==
  /\ conn[c].client = "OPEN"
  /\ conn' = [ conn EXCEPT ![c].client = "CLOSED",
                           ![c].upstream = IF conn[c].upstream = "OPEN"
                                           THEN "CLOSING" ELSE conn[c].upstream ]
  /\ registry' = RegistryDelete(registry, conn[c].sessionId)
  /\ SendNothing

ConnStep(c) ==
  /\ actor' = c
  /\ UNCHANGED << sessionVars, simVars, sumVars, notesVars, pipeVars,
                  recorderVars >>
  /\ \/ ConnConnection(c)
     \/ ConnUpstreamOpen(c)
     \/ ConnUpstreamMessage(c)
     \/ ConnUpstreamError(c)
     \/ ConnUpstreamClose(c)
     \/ ConnClientClose(c)

ConnInit ==
  /\ conn = [ c \in Conns |-> NewConn ]
  /\ registry = {}
  /\ outbox = [ c \in Conns |-> <<>> ]
  /\ actor = "none"

ConnNext == \E c \in Conns : ConnStep(c)

InitSessions == SessionInit /\ SimIdle /\ SumIdle /\ ConnInit /\ NotesIdle /\ FrontIdle

SpecSessions == InitSessions /\ [][ConnNext]_vars

(***************************************************************************)
(* What the specification says the transcript is: the recorded texts in    *)
(* ascending order-key order, joined by single spaces.                     *)
(***************************************************************************)
TextAt(turns, k) == turns[CHOOSE i \in 1..Len(turns) : turns[i].key = k].text

RECURSIVE AscendingTexts(_, _)
AscendingTexts(turns, k) ==
  IF k > MaxKey THEN <<>>
  ELSE (IF Has(turns, k) THEN <<TextAt(turns, k)>> ELSE <<>>)
         \o AscendingTexts(turns, k + 1)

ExpectedTranscript(turns) == Join(AscendingTexts(turns, 0), <<SP>>)

IsPrefix(p, q) == Len(p) <= Len(q) /\ SubSeq(q, 1, Len(p)) = p

Emits(type) == emitted # <<>> /\ emitted[1].type = type

\* the message callback handling Turn event ev
HandlesTurn(ev) ==
  /\ assemblyState \in {"OPEN", "CLOSING"}
  /\ OnTurn(ev)
  /\ UNCHANGED << clientState, assemblyState, activeSessions, atError >>
  /\ UNCHANGED analyticsVars

(***************************************************************************)
(* C1: completed turns with distinct order keys and non-empty text give,   *)
(* in any arrival order, the full transcript made of their trimmed texts   *)
(* joined by single spaces in ascending order-key order; a smaller key     *)
(* that arrives late is placed before the larger keys already recorded.    *)
(***************************************************************************)
C1_TranscriptInKeyOrder ==
  /\ \A i \in 1..Len(completedTurns) :
       /\ completedTurns[i].text # <<>>
       /\ completedTurns[i].text = Trim(completedTurns[i].text)
  /\ \A i, j \in 1..Len(completedTurns) :
       i # j => completedTurns[i].key # completedTurns[j].key
  /\ BuildFullTranscript(completedTurns) = ExpectedTranscript(completedTurns)

\* key 1 arrived before key 0 and the transcript is text(0) + " " + text(1)
C1_Witness ==
  /\ Len(completedTurns) = 2
  /\ completedTurns[1].key = 1
  /\ completedTurns[2].key = 0
  /\ BuildFullTranscript(completedTurns)
       = completedTurns[2].text \o <<SP>> \o completedTurns[1].text

(***************************************************************************)
(* C2: a completed-turn event whose order key is already recorded is a     *)
(* no-op: the completed turns, the partial text and the full transcript    *)
(* are unchanged and nothing is sent to the client.                        *)
(***************************************************************************)
EndOfTurnStep == Len(path') >= 2 /\ path'[1] = "Turn" /\ path'[2] = "end_of_turn"

C2_DuplicateTurnIsNoOp ==
  [][ (EndOfTurnStep /\ Has(completedTurns, turnOrder'))
        => /\ completedTurns' = completedTurns
           /\ currentPartialText' = currentPartialText
           /\ BuildFullTranscript(completedTurns')
                = BuildFullTranscript(completedTurns)
           /\ emitted' = <<>>
           /\ sessionEnds' = sessionEnds ]_vars

\* a completed turn arrived for a recorded key while a partial text was held
C2_Witness ==
  /\ path = <<"Turn", "end_of_turn", "key_recorded">>
  /\ Has(completedTurns, turnOrder)
  /\ currentPartialText # <<>>

(***************************************************************************)
(* C3: the client receives session_end exactly once, whether the upstream  *)
(* closes after a Termination event or without one.                        *)
(***************************************************************************)
C3_SessionEndExactlyOnce ==
  (assemblyState = "CLOSED" /\ clientState = "OPEN") => sessionEnds = 1

(***************************************************************************)
(* C4: a text recorded under an order key is never changed or removed by   *)
(* any later event.                                                        *)
(***************************************************************************)
C4_CompletedTurnsImmutable ==
  [][ \A k \in TurnKeys(completedTurns) :
        /\ Has(completedTurns', k)
        /\ TextAt(completedTurns', k) = TextAt(completedTurns, k) ]_vars

\* every key is recorded and one more completed turn arrived for one of them
C4_Witness ==
  /\ path = <<"Turn", "end_of_turn", "key_recorded">>
  /\ TurnKeys(completedTurns) = Keys

(***************************************************************************)
(* C5: a commit is atomic for every observer: a final_transcript carries   *)
(* the text just committed and the transcript of the map including it, and *)
(* every session_end carries the transcript of the map as it is.           *)
(***************************************************************************)
C5_NotificationsMatchMap ==
  /\ Emits("final_transcript") =>
       /\ completedTurns # <<>>
       /\ emitted[1].text = completedTurns[Len(completedTurns)].text
       /\ emitted[1].fullTranscript = ExpectedTranscript(completedTurns)
  /\ Emits("session_end") =>
       emitted[1].fullTranscript = ExpectedTranscript(completedTurns)

\* the second commit of a session has just been notified
C5_Witness ==
  /\ Emits("final_transcript")
  /\ Len(completedTurns) = 2
  /\ Len(emitted[1].fullTranscript) > Len(emitted[1].text)

(***************************************************************************)
(* C6: after a Termination event no Turn event changes the completed       *)
(* turns or the partial text, and none is notified to the client.          *)
(***************************************************************************)
C6_ClosedIsTerminal ==
  [][ (sessionEnds >= 1 /\ path' # <<>> /\ path'[1] = "Turn")
        => /\ completedTurns' = completedTurns
           /\ currentPartialText' = currentPartialText
           /\ emitted' = <<>> ]_vars

(***************************************************************************)
(* C7: when the client closes while the upstream socket is open, the       *)
(* handler sends Terminate and requests the upstream close, then discards  *)
(* the session's registry entry; no audio is forwarded after the close.    *)
(***************************************************************************)
C7_TerminateThenDiscard ==
  [][ /\ (clientState = "OPEN" /\ clientState' = "CLOSED" /\ assemblyState = "OPEN")
        => /\ path' = <<"client_close", "send_Terminate", "close_upstream",
                        "registry_delete">>
           /\ assemblyState' = "CLOSING"
           /\ LocalId \notin activeSessions'
      /\ clientState = "CLOSED"
        => \A i \in 1..Len(path') : path'[i] # "send_audio" ]_vars

(***************************************************************************)
(* C8: a stream error is notified to the client and leaves the completed   *)
(* turns and the transcript as they were; turns that arrive afterwards are *)
(* still committed, and a later session_end carries every turn committed   *)
(* before the error.                                                       *)
(***************************************************************************)
C8_ErrorPreservesTranscript ==
  [][ /\ (path' # <<>> /\ path'[1] = "upstream_error")
        => /\ emitted' = << [type |-> "error"] >>
           /\ completedTurns' = completedTurns
           /\ BuildFullTranscript(completedTurns')
                = BuildFullTranscript(completedTurns)
           /\ currentPartialText' = currentPartialText
      /\ ( /\ atError # <<>>
           /\ EndOfTurnStep
           /\ path'[3] # "text_empty"
           /\ ~Has(completedTurns, turnOrder') )
        => /\ Emits("final_transcript")'
           /\ completedTurns'
                = Append(completedTurns, [ key |-> turnOrder',
                                           text |-> emitted'[1].text ])
           /\ IsPrefix(atError, completedTurns')
      /\ (emitted' # <<>> /\ emitted'[1].type = "session_end")
        => /\ IsPrefix(atError', completedTurns')
           /\ emitted'[1].fullTranscript = ExpectedTranscript(completedTurns')
           /\ \A i \in 1..Len(atError') :
                TextAt(completedTurns', atError'[i].key) = atError'[i].text ]_vars

\* an error after the first commit, a commit after the error, then session_end
C8_Witness ==
  /\ atError # <<>>
  /\ Len(completedTurns) > Len(atError)
  /\ Emits("session_end")
  /\ Delivered

(***************************************************************************)
(* C9: both similarity functions return a defined value between 0 and 1,   *)
(* 1 for two equal non-empty token sets and 0 (never NaN) when both token  *)
(* sets are empty.                                                         *)
(***************************************************************************)
SimTokens(x) == IF simIn.fn = "jaccardSimilarity" THEN x ELSE WordSet(x)

C9_JaccardBounds ==
  simOut # <<>> =>
    LET r == simOut[1]
        A == SimTokens(simIn.a)
        B == SimTokens(simIn.b)
    IN  /\ ~r.nan /\ ~r.inf
        /\ 0 <= r.num /\ r.num <= r.den
        /\ (A = B /\ A # {}) => r.num = r.den
        /\ (A = {} /\ B = {}) => r.num = 0

(***************************************************************************)
(* C10: for a text of at least 30 words with N segments the summary takes  *)
(* exactly min(N, min(max(2, ceil(0.3 N)), 5)) segments, none of them      *)
(* twice.                                                                  *)
(***************************************************************************)
\* the least integer c with c >= 0.3 N
CeilOfThreeTenths(n) == CHOOSE c \in 0..n : 10 * c >= 3 * n /\ 10 * (c - 1) < 3 * n

SummaryBound(n) ==
  LET c == CeilOfThreeTenths(n)
      atLeastTwo == IF c < 2 THEN 2 ELSE c
  IN  IF atLeastTwo > 5 THEN 5 ELSE atLeastTwo

C10_SummaryLengthBound ==
  (sumOut # <<>> /\ sumIn.wordCount >= 30) =>
    LET n == Len(sumIn.segments)
        parts == sumOut[1].summaryParts
    IN  /\ sumOut[1].sentenceCount = n
        /\ Len(parts) <= SummaryBound(n)
        /\ Len(parts) = (IF n < SummaryBound(n) THEN n ELSE SummaryBound(n))
        /\ \A i, j \in 1..Len(parts) : i # j => parts[i] # parts[j]
        /\ \A i \in 1..Len(parts) : parts[i] \in 0..(n - 1)
        /\ Len(sumOut[1].selected) = Len(parts)

\* 17 segments: ceil(5.1) = 6 is capped to 5, and the ranking is not the
\* document order
C10_Witness ==
  /\ sumOut # <<>>
  /\ sumIn.wordCount >= 30
  /\ Len(sumIn.segments) = 17
  /\ Len(sumOut[1].summaryParts) = 5
  /\ sumOut[1].selected # sumOut[1].summaryParts

(***************************************************************************)
(* C18 as stated: every completed-turn event whose order key (0 when the   *)
(* turn_order field is absent) is not recorded has its text stored under   *)
(* that key, clears the partial text and sends one final_transcript.       *)
(***************************************************************************)
KeyOfEvent(ev) == IF ev.turn_order = <<>> THEN 0 ELSE ev.turn_order[1]

\* the utterance field when it holds text, otherwise the transcript field
TextOfEvent(ev) ==
  IF ev.utterance # {} /\ ev.utterance # {<<>>}
  THEN CHOOSE t \in ev.utterance : TRUE
  ELSE ev.transcript

FreshEndOfTurnStep == EndOfTurnStep /\ ~Has(completedTurns, turnOrder')

StoredAndNotified(ev) ==
  /\ completedTurns' = Append(completedTurns, [ key |-> KeyOfEvent(ev),
                                               text |-> Trim(TextOfEvent(ev)) ])
  /\ currentPartialText' = <<>>
  /\ emitted' = << [ type |-> "final_transcript",
                     text |-> Trim(TextOfEvent(ev)),
                     fullTranscript |-> ExpectedTranscript(completedTurns') ] >>

C19_PartialTurnFrame ==
  [][ (Len(path') >= 2 /\ path'[1] = "Turn" /\ path'[2] = "partial") =>
        /\ completedTurns' = completedTurns
        /\ \A ev \in TurnEvents :
             (~ev.end_of_turn /\ KeyOfEvent(ev) = turnOrder' /\ HandlesTurn(ev)) =>
               IF ev.transcript # <<>>
               THEN /\ currentPartialText' = ev.transcript
                    /\ emitted' = << [ type |-> "partial_transcript",
                                       text |-> ev.transcript ] >>
               ELSE /\ currentPartialText' = currentPartialText
                    /\ emitted' = <<>> ]_vars

\* a partial text replaced the partial text already held, after a commit
C19_Witness ==
  /\ path = <<"Turn", "partial", "set_partial", "send">>
  /\ completedTurns # <<>>
  /\ currentPartialText # <<>>
  /\ Emits("partial_transcript")

(***************************************************************************)
(* C20: a message that cannot be parsed is dropped: the completed turns,   *)
(* the partial text and the rest of the session are as they were, nothing  *)
(* is sent, and the message callback stays registered on a socket that    *)
(* still delivers, so Turn events are handled afterwards as from the state *)
(* before it.                                                              *)
(***************************************************************************)
C20_MalformedDropped ==
  [][ (path' = <<"Malformed">>) =>
        /\ completedTurns' = completedTurns
        /\ currentPartialText' = currentPartialText
        /\ emitted' = <<>>
        /\ UNCHANGED << clientState, assemblyState, sessionId, activeSessions,
                        sessionEnds, atError >>
        /\ assemblyState' \in {"OPEN", "CLOSING"} ]_vars

\* a malformed message arrived while a commit and a partial text were held
C20_Witness ==
  /\ path = <<"Malformed">>
  /\ completedTurns # <<>>
  /\ currentPartialText # <<>>
  /\ assemblyState = "OPEN"

(***************************************************************************)
(* C17: with two connections open, a callback of one connection (a Turn, a *)
(* Termination, an error or a close) never changes the completed turns,    *)
(* the partial text or the transcript of the other and sends nothing to    *)
(* the other's client, in any interleaving.                                *)
(***************************************************************************)
C17_SessionsIsolated ==
  [][ \A c \in Conns : \A o \in Conns \ {c} :
        actor' = c =>
          /\ conn'[o].completedTurns = conn[o].completedTurns
          /\ conn'[o].currentPartialText = conn[o].currentPartialText
          /\ BuildFullTranscript(conn'[o].completedTurns)
               = BuildFullTranscript(conn[o].completedTurns)
          /\ outbox'[o] = <<>> ]_vars

\* both connections are open under the same local identifier; c1 has just
\* committed a turn while c2 holds a partial text and no completed turn
C17_Witness ==
  /\ actor = "c1"
  /\ conn["c1"].client = "OPEN" /\ conn["c2"].client = "OPEN"
  /\ conn["c1"].sessionId = conn["c2"].sessionId
  /\ outbox["c1"] # <<>> /\ outbox["c1"][1].type = "final_transcript"
  /\ conn["c1"].completedTurns # <<>>
  /\ conn["c2"].completedTurns = <<>>
  /\ conn["c2"].currentPartialText # <<>>

(***************************************************************************)
(* What the specification says of a text: its words are the maximal runs   *)
(* without whitespace, and the text without its surrounding whitespace     *)
(* runs from its first to its last such character.                         *)
(***************************************************************************)
NonSpaceAt(text) == { i \in 1..Len(text) : ~IsSpace(text[i]) }

WordStarts(text) ==
  { i \in NonSpaceAt(text) : i = 1 \/ IsSpace(text[i - 1]) }

Stripped(text) ==
  LET at == NonSpaceAt(text)
  IN  IF at = {} THEN <<>>
      ELSE SubSeq(text, CHOOSE i \in at : \A j \in at : i <= j,
                        CHOOSE i \in at : \A j \in at : j <= i)

Summarized == sumOut # <<>>

ShortTextSummarized ==
  /\ Summarized
  /\ NonSpaceAt(sumIn.text) # {}
  /\ Cardinality(WordStarts(sumIn.text)) < ShortTextWords

C12_ObligationsReported ==
  Summarized =>
    /\ sumIn.text = Scenario =>
         /\ Contains(sumOut[1].keyPoints, ImportantSentence)
         /\ Contains(sumOut[1].actionItems, ObligationSentence)
    /\ LET segments == SplitIntoSentences(Stripped(sumIn.text))
       IN  \A i \in 1..Len(segments) :
             IsAction(segments[i]) => Contains(sumOut[1].actionItems, segments[i])

(***************************************************************************)
(* C16: the summarizer returns a result for every text; for an empty or    *)
(* whitespace-only text the result has no key points, no action items, an  *)
(* empty summary and zero counts, and a text of 30 or more words without   *)
(* any segment gives a result with no key points and no action items.      *)
(***************************************************************************)
ResultFields ==
  { "keyPoints", "summary", "actionItems", "wordCount", "sentenceCount" }

C16_TotalAndEmptyOnBlank ==
  Summarized =>
    /\ ResultFields \subseteq DOMAIN sumOut[1]
    /\ sumOut[1].wordCount \in Nat /\ sumOut[1].sentenceCount \in Nat
    /\ NonSpaceAt(sumIn.text) = {} =>
         /\ sumOut[1].keyPoints = <<>>
         /\ sumOut[1].actionItems = <<>>
         /\ sumOut[1].summary = <<>>
         /\ sumOut[1].wordCount = 0
         /\ sumOut[1].sentenceCount = 0
    /\ (sumOut[1].wordCount >= ShortTextWords /\ sumOut[1].sentenceCount = 0) =>
         /\ sumOut[1].keyPoints = <<>>
         /\ sumOut[1].actionItems = <<>>

C16_Witness ==
  /\ Summarized
  /\ sumIn.text # <<>>
  /\ NonSpaceAt(sumIn.text) = {}
  /\ sumOut[1].summary = <<>>
  /\ sumOut[1].wordCount = 0

(***************************************************************************)
(* What the specification says of an enhancement: the note lines are the   *)
(* non-blank lines of the notes without their surrounding whitespace, a    *)
(* segment duplicates a line when the Jaccard similarity of their content  *)
(* words is above 0.4, and a section of the document is what stands        *)
(* between its heading and the next heading.                               *)
(***************************************************************************)
Enhanced == notesOut # <<>>

ExpectedNoteLines(existingNotes) ==
  LET pieces == SplitOn(existingNotes, NL)
  IN  Concat([ k \in 1..Len(pieces) |->
                 IF NonSpaceAt(pieces[k]) = {} THEN <<>>
                 ELSE << Stripped(pieces[k]) >> ])

DuplicatesNotes(lines, segment) ==
  \E k \in 1..Len(lines) :
    10 * Cardinality(ContentSet(lines[k]) \cap ContentSet(segment))
      > 4 * Cardinality(ContentSet(lines[k]) \cup ContentSet(segment))

SharesTopic(topics, segment) == ContentSet(segment) \cap topics # {}

InRelated(segment) == Contains(notesOut[1].relatedInfo, segment)
InNew(segment) == Contains(notesOut[1].newInfo, segment)

\* Holds(segment, duplicate, shares) of every transcript segment, with
\* whether it duplicates a note line and whether it shares a topic word
EverySegment(Holds(_, _, _)) ==
  \A lines \in { ExpectedNoteLines(notesIn.existingNotes) } :
    \A topics \in { TopTopics(lines) } :
      \A segments \in { SplitIntoSentences(notesIn.transcription) } :
        \A i \in 1..Len(segments) :
          Holds(segments[i], DuplicatesNotes(lines, segments[i]),
                SharesTopic(topics, segments[i]))

ClassifiedAsStated(segment, duplicate, shares) ==
  /\ ~(InRelated(segment) /\ InNew(segment))
  /\ (~duplicate /\ shares) => (InRelated(segment) /\ ~InNew(segment))
  /\ (~duplicate /\ ~shares) => (InNew(segment) /\ ~InRelated(segment))
  /\ duplicate => (~InRelated(segment) /\ ~InNew(segment))

ClassifiedWhenLong(segment, duplicate, shares) ==
  LET long == StrLen(segment) > 20
  IN  /\ ~(InRelated(segment) /\ InNew(segment))
      /\ (long /\ ~duplicate /\ shares) => (InRelated(segment) /\ ~InNew(segment))
      /\ (long /\ ~duplicate /\ ~shares) => (InNew(segment) /\ ~InRelated(segment))
      /\ duplicate => (~InRelated(segment) /\ ~InNew(segment))

(***************************************************************************)
(* C13 as stated: every transcript segment is in at most one of the        *)
(* Related and New Information lists; a segment that duplicates no note    *)
(* line is in Related only when it shares a topic word with the notes and  *)
(* in New Information only when it shares none; a duplicate is in neither. *)
(***************************************************************************)
C13_EverySegmentClassified == Enhanced => EverySegment(ClassifiedAsStated)

(***************************************************************************)
(* C13 amended: every transcript segment is in at most one of the Related  *)
(* and New Information lists; a segment of more than 20 characters that    *)
(* duplicates no note line is in Related only when it shares a topic word  *)
(* with the notes and in New Information only when it shares none; a       *)
(* duplicate is in neither.                                                *)
(***************************************************************************)
C13_LongSegmentClassified == Enhanced => EverySegment(ClassifiedWhenLong)

C13_Witness ==
  /\ Enhanced
  /\ notesIn.existingNotes = MixedNotes
  /\ \A lines \in { ExpectedNoteLines(notesIn.existingNotes) } :
       /\ DuplicatesNotes(lines, WentWellSentence)
       /\ ~DuplicatesNotes(lines, ReviewSentence)
       /\ SharesTopic(TopTopics(lines), ReviewSentence)
  /\ ~InRelated(WentWellSentence) /\ ~InNew(WentWellSentence)
  /\ InRelated(ReviewSentence) /\ ~InNew(ReviewSentence)

Headings ==
  << OriginalNotesHeading, RelatedHeading, NewHeading, KeyPointsHeading,
     ActionItemsHeading, SummaryHeading >>

IsHeading(line) == \E h \in 1..Len(Headings) : Headings[h] = line

HeadingAt(heading) ==
  { i \in 1..Len(notesOut[1].enhanced) : notesOut[1].enhanced[i] = heading }

\* the entries of the section that starts at line i: the lines up to the
\* next heading that are neither empty nor the caption of the section
EntriesAt(i) ==
  LET doc == notesOut[1].enhanced
      later == { j \in (i + 1)..Len(doc) : IsHeading(doc[j]) }
      stop == IF later = {} THEN Len(doc) + 1
              ELSE CHOOSE j \in later : \A k \in later : j <= k
  IN  Concat([ j \in 1..(stop - i - 1) |->
                 IF doc[i + j] \in { <<>>, RelatedCaption, NewCaption }
                 THEN <<>> ELSE << doc[i + j] >> ])

ListFormatted(line) ==
  \/ line[1] \in { "-", "*" }
  \/ Len(line) >= 2 /\ line[1] \in Numerals /\ line[2] = "."

(***************************************************************************)
(* C14: the Original Notes section holds exactly the non-blank trimmed     *)
(* lines of the existing notes, each once and in their order, a list-      *)
(* formatted line unchanged and any other line with "- " put before it,    *)
(* and every derived section stands after the Original Notes section.      *)
(***************************************************************************)
C14_OriginalNotesKept ==
  Enhanced =>
    LET lines == ExpectedNoteLines(notesIn.existingNotes)
    IN  /\ Cardinality(HeadingAt(OriginalNotesHeading)) = 1
        /\ \A i \in HeadingAt(OriginalNotesHeading) :
             /\ EntriesAt(i) =
                  [ k \in 1..Len(lines) |->
                      IF ListFormatted(lines[k]) THEN lines[k]
                      ELSE << "-", SP >> \o lines[k] ]
             /\ \A h \in 2..Len(Headings) :
                  \A j \in HeadingAt(Headings[h]) : j > i + Len(lines)

C14_Witness ==
  /\ Enhanced
  /\ notesIn.existingNotes = MixedNotes
  /\ Len(ExpectedNoteLines(notesIn.existingNotes)) = 5
  /\ HeadingAt(RelatedHeading) # {}
  /\ HeadingAt(KeyPointsHeading) # {}
  /\ \E i \in HeadingAt(OriginalNotesHeading) : Len(EntriesAt(i)) = 5

(***************************************************************************)
(* C15: the sections of the document stand in the order Original Notes,    *)
(* Related/Expanded Details, New Information, Key Points, Action Items,    *)
(* Summary, with at most 6 Related entries, 5 New entries and 5 Key        *)
(* Points, and no section without an entry is in the document.             *)
(***************************************************************************)
C15_SectionsOrderedCappedNonEmpty ==
  Enhanced =>
    /\ \A h \in 1..Len(Headings) : Cardinality(HeadingAt(Headings[h])) <= 1
    /\ \A g, h \in 1..Len(Headings) :
         g < h => \A i \in HeadingAt(Headings[g]) :
                    \A j \in HeadingAt(Headings[h]) : i < j
    /\ \A i \in HeadingAt(RelatedHeading) : Len(EntriesAt(i)) <= 6
    /\ \A i \in HeadingAt(NewHeading) : Len(EntriesAt(i)) <= 5
    /\ \A i \in HeadingAt(KeyPointsHeading) : Len(EntriesAt(i)) <= 5
    /\ \A h \in 1..Len(Headings) :
         \A i \in HeadingAt(Headings[h]) : Len(EntriesAt(i)) >= 1

(***************************************************************************)
(* C21: the registry is created on connect and deleted on close: once the  *)
(* client connection has closed, activeSessions holds no entry of the      *)
(* session, also when a Begin event reassigned the session identifier      *)
(* between registration and close, so the registry is empty again.         *)
(***************************************************************************)
C21_RegistryEmptyAfterClose ==
  clientState = "CLOSED" => activeSessions = {}

(***************************************************************************)
(* C22: the segments of the summary are in ascending document position     *)
(* whatever their rank: the indices of summaryParts strictly increase.     *)
(***************************************************************************)
C22_SummaryInDocumentOrder ==
  \A k \in 1..Len(sumOut) :
    sumOut[k].branch = "ranked" =>
      \A i \in 1..Len(sumOut[k].summaryParts) :
        \A j \in 1..Len(sumOut[k].summaryParts) :
          i < j => sumOut[k].summaryParts[i] < sumOut[k].summaryParts[j]

\* a summary whose segments were selected in an order other than the
\* document's
C22_Witness ==
  /\ sumOut # <<>>
  /\ sumOut[1].branch = "ranked"
  /\ Len(sumOut[1].summaryParts) >= 3
  /\ sumOut[1].selected # sumOut[1].summaryParts
  /\ sumOut[1].selected[1] > sumOut[1].selected[2]

(***************************************************************************)
(* Ranking of the segments of a summarized text, stated from the scores:   *)
(* a segment outranks another when its score is higher, or equal with an   *)
(* earlier position.  Segments are numbered from 1 here.                   *)
(***************************************************************************)
LongTextSummarized ==
  /\ Summarized
  /\ Cardinality(WordStarts(sumIn.text)) >= ShortTextWords

Outranks(scores, i, j) ==
  scores[i] > scores[j] \/ (scores[i] = scores[j] /\ i < j)

\* the number of segments of among that outrank segment i
RankIn(scores, among, i) == Cardinality({ j \in among : Outranks(scores, j, i) })

SummarySegments(scores) ==
  { i \in DOMAIN scores : RankIn(scores, DOMAIN scores, i) < SummaryBound(Len(scores)) }

\* the segments of among from the highest-ranked down
ByRank(scores, among) ==
  [ k \in 1..Cardinality(among) |->
      CHOOSE i \in among : RankIn(scores, among, i) = k - 1 ]

KeyPointsAsStated(segments, scores, keyPoints) ==
  LET selected == SummarySegments(scores)
      unselected == DOMAIN scores \ selected
      ranked == ByRank(scores, unselected)
      found == IF Len(ranked) < 5 THEN Len(ranked) ELSE 5
  IN  /\ Len(keyPoints) <= 5
      /\ Len(keyPoints) >= found
      /\ \A k \in 1..found : keyPoints[k] = segments[ranked[k]]
      /\ Len(ranked) >= 3 => Len(keyPoints) = found
      /\ \A k \in (found + 1)..Len(keyPoints) :
           /\ \E i \in selected : keyPoints[k] = segments[i]
           /\ \A j \in 1..(k - 1) : keyPoints[j] # keyPoints[k]

(***************************************************************************)
(* C23: for a text of 30 or more words the key points are at most 5, each  *)
(* a different segment: the highest-ranked segments that were not selected *)
(* for the summary, in rank order; segments of the summary follow them     *)
(* only when fewer than 3 segments were left unselected.                   *)
(***************************************************************************)
C23_KeyPointsFromUnselected ==
  LongTextSummarized =>
    \A segments \in { SplitIntoSentences(Stripped(sumIn.text)) } :
      \A scores \in { [ i \in 1..Len(segments) |->
                          ScoreAt(i, Len(segments), sumIn.pattern, sumIn.layout) ] } :
        KeyPointsAsStated(segments, scores, sumOut[1].keyPoints)

\* five key points out of six unselected segments, the first of them not
\* the earliest unselected segment of the text
C23_Witness ==
  /\ LongTextSummarized
  /\ sumOut[1].sentenceCount = 9
  /\ sumIn.layout = "repeat"
  /\ sumIn.pattern = << 0, 1, 1 >>
  /\ Len(sumOut[1].keyPoints) = 5
  /\ sumOut[1].keyPoints[1] = FillerSentence
  /\ sumOut[1].keyPoints[4] = ImportantSentence

\* two unselected segments of four, then the two segments of the summary
C23_BackfillReached ==
  /\ LongTextSummarized
  /\ sumIn.text = Minutes
  /\ sumOut[1].sentenceCount = 4
  /\ Len(sumOut[1].keyPoints) = 4

\* the members of a set of positions from the earliest on
Ascending(positions) ==
  [ k \in 1..Cardinality(positions) |->
      CHOOSE i \in positions : Cardinality({ j \in positions : j < i }) = k - 1 ]

ActionItemsAsStated(segments, actionItems) ==
  LET matching == Ascending({ i \in DOMAIN segments : IsAction(segments[i]) })
  IN  /\ Len(actionItems) = (IF Len(matching) < 5 THEN Len(matching) ELSE 5)
      /\ \A k \in 1..Len(actionItems) : actionItems[k] = segments[matching[k]]

(***************************************************************************)
(* C24: for a text of 30 or more words the action items are the first (at  *)
(* most 5) segments, in document order, that match the obligation/intent   *)
(* pattern, whatever the scores selected for the summary and the key       *)
(* points.                                                                 *)
(***************************************************************************)
C24_ActionItemsInDocumentOrder ==
  LongTextSummarized =>
    \A segments \in { SplitIntoSentences(Stripped(sumIn.text)) } :
      ActionItemsAsStated(segments, sumOut[1].actionItems)

\* six segments match and the first five are returned, the highest-scored
\* segments of the summary among them
C24_Witness ==
  /\ LongTextSummarized
  /\ sumIn.text = Tasks
  /\ sumIn.layout = "head"
  /\ sumIn.pattern = << 1, 0, 1 >>
  /\ sumOut[1].sentenceCount = 7
  /\ sumOut[1].actionItems =
       << TaskSentences[1], TaskSentences[2], TaskSentences[3],
          TaskSentences[5], TaskSentences[6] >>

(***************************************************************************)
(* The three splits of a text and the order of segments within it.         *)
(***************************************************************************)
Segmented == sumOut # <<>> /\ "sentences" \in DOMAIN sumOut[1]

PunctuationSplit(text) ==
  TrimAndFilter(SplitSep(MarkSentenceEnds(text)), 10)

PauseSplit(text) ==
  TrimAndFilter(SplitSep(MarkConjunctions(MarkCommas(text))), 15)

WindowChunks(text) == WordChunks(SplitWhitespace(text))

\* the atoms of a text that are not whitespace
Solid(text) ==
  LET at == Where([ i \in 1..Len(text) |-> ~IsSpace(text[i]) ], 1, Len(text))
  IN  [ k \in 1..Len(at) |-> text[at[k]] ]

OccursAt(solid, piece, o) ==
  /\ o + Len(piece) - 1 <= Len(solid)
  /\ \A i \in 1..Len(piece) : solid[o + i - 1] = piece[i]

\* the segments from the k-th on occur one after the other, without
\* overlap, in the text from position from on
RECURSIVE InOrderFrom(_, _, _, _)
InOrderFrom(solid, segments, k, from) ==
  IF k > Len(segments) THEN TRUE
  ELSE \A piece \in { Solid(segments[k]) } :
         LET at == { o \in from..Len(solid) : OccursAt(solid, piece, o) }
         IN  /\ at # {}
             /\ InOrderFrom(solid, segments, k + 1,
                            (CHOOSE o \in at : \A q \in at : o <= q) + Len(piece))

KeepsOrder(text, segments) == InOrderFrom(Solid(text), segments, 1, 1)

LongerThan(segments, minChars) ==
  \A k \in 1..Len(segments) : StrLen(segments[k]) > minChars

\* the tiers with the condition under which the chunking applies
TiersApplied(text, punctuation, pauses, chunks, long, chunkingApplies(_, _), out) ==
  LET second == IF Len(punctuation) < 3 /\ long THEN pauses ELSE punctuation
  IN  /\ Len(punctuation) >= 3 => out = punctuation
      /\ ~(Len(punctuation) < 3 /\ long) => out # pauses \/ pauses = punctuation
      /\ chunkingApplies(second, long) => out = chunks
      /\ KeepsOrder(text, out)
      /\ LongerThan(out, IF out = punctuation THEN 10 ELSE 15)

WheneverFew(second, long) == Len(second) < 3
WheneverFewAndLong(second, long) == Len(second) < 3 /\ long

C28_SilentAfterClientClose ==
  [][ clientState = "CLOSED"
        => /\ emitted' = <<>>
           /\ completedTurns' = completedTurns ]_vars

(***************************************************************************)
(* C27: after the client connection has closed, the upstream connection    *)
(* is eventually closed, whatever state the upstream socket was in at the  *)
(* moment of the client close (connecting, open, closing).                 *)
(***************************************************************************)
C27_UpstreamClosedAfterClient ==
  (clientState = "CLOSED") ~> (assemblyState = "CLOSED")

(***************************************************************************)
(* C30: on a stream whose completed turns arrive in strictly ascending     *)
(* order-key order the append-only handler and the map-based handler send  *)
(* the same notification at every event, with the same text and the same   *)
(* fullTranscript, the transcript of session_end included.                 *)
(***************************************************************************)
C30_HandlersAgreeInOrder ==
  (stream # <<>> /\ stream.ascending) => appendSession.emitted = emitted

\* the session_end after two turns completed in ascending order
C30_Witness ==
  /\ stream # <<>>
  /\ stream.ascending
  /\ stream.lastKey = 1
  /\ Len(completedTurns) = 2
  /\ Emits("session_end")
  /\ appendSession.emitted = emitted
  /\ emitted[1].fullTranscript = << "a", SP, "b" >>

(***************************************************************************)
(* C26: after each final_transcript notification the transcript held by    *)
(* the browser equals the fullTranscript of that notification, whatever    *)
(* the arrival order of the completed turns.                               *)
(***************************************************************************)
C26_ClientHoldsFullTranscript ==
  (Emits("final_transcript") /\ Delivered) =>
    app.transcript = emitted[1].fullTranscript

(***************************************************************************)
(* C29: whenever the recorder is neither recording nor connecting, the     *)
(* microphone stream, the duration timer, the audio-level animation loop   *)
(* and the audio context are released, and a new recording never           *)
(* overwrites a stream or a timer that is still live.                      *)
(***************************************************************************)
C29_ResourcesReleased ==
  /\ (~recorder.isRecording /\ ~recorder.isConnecting)
       => /\ recorder.streamRef = "null"
          /\ recorder.durationIntervalRef = "null"
          /\ recorder.animationFrameRef = "null"
          /\ recorder.audioContextRef = "null"
  /\ ~recorder.overwrittenStream
  /\ ~recorder.overwrittenTimer
=========================================================================
